---- MODULE Spec2Model ----
(***************************************************************************)
(* Model of the knowledge-based agent: the Streamlit rule editor and its   *)
(* inference helpers (streamlit_app.py), the explanation engine            *)
(* (inference_engine.py), the Flask application (app.py), the database     *)
(* helpers (database.py, knowledge_base.py) and the rules.json             *)
(* persistence.                                                            *)
(*                                                                         *)
(* A Python str is the sequence of its code points: "flu" is               *)
(* <<102, 108, 117>>.  A rule is a record [if |-> sequence of terms,       *)
(* then |-> term].  A Python list is a sequence, a Python set a set.       *)
(***************************************************************************)
EXTENDS Integers, Sequences, FiniteSets, TLC

VARIABLES
    rules,        \* inference input: the rule list (kb)
    facts,        \* inference input: the list of observed facts
    pc,           \* position of the running inference call, or "serving"
    wfacts,       \* forward_chain: local list `facts` (the working facts)
    wprev,        \* forward_chain: `facts` as it was when the current pass began
    conclusions,  \* forward_chain: local set `conclusions`
    changed,      \* forward_chain: local flag `changed`
    passes,       \* forward_chain: iterations of the while loop so far
    fired,        \* forward_chain: indices of the rules whose body ran, in order
    ret,          \* value returned by the last finished call
    db_rules,     \* Flask: the rows of the table rules, in rowid order
    db_facts,     \* Flask: the rows of the table facts, in rowid order
    db_unique,    \* Flask: whether the table facts has the UNIQUE constraint
    response,     \* Flask: what the last request was answered with
    file,         \* rules.json: [exists |-> BOOLEAN, text |-> sequence of parts]
    loaded,       \* editor: `rules` as load_rules() returned it in the last run
    mem,          \* editor: `rules` at the end of the last script run
    op,           \* editor: the submission the last script run handled
    w_pc,         \* save_rules: position of the session that saves
    w_rules,      \* save_rules: the list being saved
    w_pending,    \* save_rules: parts json.dump has not yet put in the file
    w_saves,      \* store: the saves the writing session has begun
    pre,          \* store: the list rules.json held when the running save began
    r_pc,         \* store: position of the reading session
    r_result,     \* store: what the reader's load_rules() returned
    r_accept      \* store: the complete lists (before / being saved) at read time

vars == <<rules, facts, pc, wfacts, wprev, conclusions, changed, passes, fired,
          ret, db_rules, db_facts, db_unique, response, file, loaded, mem, op,
          w_pc, w_rules, w_pending, w_saves, pre, r_pc, r_result, r_accept>>

inferVars == <<rules, facts, pc, wfacts, wprev, conclusions, changed, passes,
               fired, ret>>
flaskVars == <<db_rules, db_facts, db_unique, response>>
editorVars == <<loaded, mem, op>>
storeVars == <<w_pc, w_rules, w_pending, w_saves, pre, r_pc, r_result, r_accept>>

-----------------------------------------------------------------------------
(* Characters and the str methods the code uses.                           *)
(*                                                                         *)
(* A character is its code point, 0..1114111.  The tables are those of the *)
(* Unicode character database the interpreter is built with (14.0.0); a    *)
(* table lists the characters from 128 on, the characters below 128 are    *)
(* given with each definition.                                             *)

Range(s) == {s[i] : i \in 1..Len(s)}

\* c lies in one of the ranges <<first, last>> of rs.
InRanges(c, rs) == \E i \in 1..Len(rs) : rs[i][1] <= c /\ c <= rs[i][2]

\* The class a-zA-Z of the regular expressions.
AsciiLetters == <<<<65, 90>>, <<97, 122>>>>

\* Whitespace, as str.strip(), str.isspace() and re's \s see it.
SpaceRanges ==
    <<<<9, 13>>, <<28, 32>>, <<133, 133>>, <<160, 160>>, <<5760, 5760>>,
      <<8192, 8202>>, <<8232, 8233>>, <<8239, 8239>>, <<8287, 8287>>,
      <<12288, 12288>>>>

\* The letters from 128 on, as str.isalpha() sees them.
AlphaRanges ==
    <<<<170, 170>>, <<181, 181>>, <<186, 186>>, <<192, 214>>, <<216, 246>>,
      <<248, 705>>, <<710, 721>>, <<736, 740>>, <<748, 748>>, <<750, 750>>,
      <<880, 884>>, <<886, 887>>, <<890, 893>>, <<895, 895>>, <<902, 902>>,
      <<904, 906>>, <<908, 908>>, <<910, 929>>, <<931, 1013>>, <<1015, 1153>>,
      <<1162, 1327>>, <<1329, 1366>>, <<1369, 1369>>, <<1376, 1416>>,
      <<1488, 1514>>, <<1519, 1522>>, <<1568, 1610>>, <<1646, 1647>>,
      <<1649, 1747>>, <<1749, 1749>>, <<1765, 1766>>, <<1774, 1775>>,
      <<1786, 1788>>, <<1791, 1791>>, <<1808, 1808>>, <<1810, 1839>>,
      <<1869, 1957>>, <<1969, 1969>>, <<1994, 2026>>, <<2036, 2037>>,
      <<2042, 2042>>, <<2048, 2069>>, <<2074, 2074>>, <<2084, 2084>>,
      <<2088, 2088>>, <<2112, 2136>>, <<2144, 2154>>, <<2160, 2183>>,
      <<2185, 2190>>, <<2208, 2249>>, <<2308, 2361>>, <<2365, 2365>>,
      <<2384, 2384>>, <<2392, 2401>>, <<2417, 2432>>, <<2437, 2444>>,
      <<2447, 2448>>, <<2451, 2472>>, <<2474, 2480>>, <<2482, 2482>>,
      <<2486, 2489>>, <<2493, 2493>>, <<2510, 2510>>, <<2524, 2525>>,
      <<2527, 2529>>, <<2544, 2545>>, <<2556, 2556>>, <<2565, 2570>>,
      <<2575, 2576>>, <<2579, 2600>>, <<2602, 2608>>, <<2610, 2611>>,
      <<2613, 2614>>, <<2616, 2617>>, <<2649, 2652>>, <<2654, 2654>>,
      <<2674, 2676>>, <<2693, 2701>>, <<2703, 2705>>, <<2707, 2728>>,
      <<2730, 2736>>, <<2738, 2739>>, <<2741, 2745>>, <<2749, 2749>>,
      <<2768, 2768>>, <<2784, 2785>>, <<2809, 2809>>, <<2821, 2828>>,
      <<2831, 2832>>, <<2835, 2856>>, <<2858, 2864>>, <<2866, 2867>>,
      <<2869, 2873>>, <<2877, 2877>>, <<2908, 2909>>, <<2911, 2913>>,
      <<2929, 2929>>, <<2947, 2947>>, <<2949, 2954>>, <<2958, 2960>>,
      <<2962, 2965>>, <<2969, 2970>>, <<2972, 2972>>, <<2974, 2975>>,
      <<2979, 2980>>, <<2984, 2986>>, <<2990, 3001>>, <<3024, 3024>>,
      <<3077, 3084>>, <<3086, 3088>>, <<3090, 3112>>, <<3114, 3129>>,
      <<3133, 3133>>, <<3160, 3162>>, <<3165, 3165>>, <<3168, 3169>>,
      <<3200, 3200>>, <<3205, 3212>>, <<3214, 3216>>, <<3218, 3240>>,
      <<3242, 3251>>, <<3253, 3257>>, <<3261, 3261>>, <<3293, 3294>>,
      <<3296, 3297>>, <<3313, 3314>>, <<3332, 3340>>, <<3342, 3344>>,
      <<3346, 3386>>, <<3389, 3389>>, <<3406, 3406>>, <<3412, 3414>>,
      <<3423, 3425>>, <<3450, 3455>>, <<3461, 3478>>, <<3482, 3505>>,
      <<3507, 3515>>, <<3517, 3517>>, <<3520, 3526>>, <<3585, 3632>>,
      <<3634, 3635>>, <<3648, 3654>>, <<3713, 3714>>, <<3716, 3716>>,
      <<3718, 3722>>, <<3724, 3747>>, <<3749, 3749>>, <<3751, 3760>>,
      <<3762, 3763>>, <<3773, 3773>>, <<3776, 3780>>, <<3782, 3782>>,
      <<3804, 3807>>, <<3840, 3840>>, <<3904, 3911>>, <<3913, 3948>>,
      <<3976, 3980>>, <<4096, 4138>>, <<4159, 4159>>, <<4176, 4181>>,
      <<4186, 4189>>, <<4193, 4193>>, <<4197, 4198>>, <<4206, 4208>>,
      <<4213, 4225>>, <<4238, 4238>>, <<4256, 4293>>, <<4295, 4295>>,
      <<4301, 4301>>, <<4304, 4346>>, <<4348, 4680>>, <<4682, 4685>>,
      <<4688, 4694>>, <<4696, 4696>>, <<4698, 4701>>, <<4704, 4744>>,
      <<4746, 4749>>, <<4752, 4784>>, <<4786, 4789>>, <<4792, 4798>>,
      <<4800, 4800>>, <<4802, 4805>>, <<4808, 4822>>, <<4824, 4880>>,
      <<4882, 4885>>, <<4888, 4954>>, <<4992, 5007>>, <<5024, 5109>>,
      <<5112, 5117>>, <<5121, 5740>>, <<5743, 5759>>, <<5761, 5786>>,
      <<5792, 5866>>, <<5873, 5880>>, <<5888, 5905>>, <<5919, 5937>>,
      <<5952, 5969>>, <<5984, 5996>>, <<5998, 6000>>, <<6016, 6067>>,
      <<6103, 6103>>, <<6108, 6108>>, <<6176, 6264>>, <<6272, 6276>>,
      <<6279, 6312>>, <<6314, 6314>>, <<6320, 6389>>, <<6400, 6430>>,
      <<6480, 6509>>, <<6512, 6516>>, <<6528, 6571>>, <<6576, 6601>>,
      <<6656, 6678>>, <<6688, 6740>>, <<6823, 6823>>, <<6917, 6963>>,
      <<6981, 6988>>, <<7043, 7072>>, <<7086, 7087>>, <<7098, 7141>>,
      <<7168, 7203>>, <<7245, 7247>>, <<7258, 7293>>, <<7296, 7304>>,
      <<7312, 7354>>, <<7357, 7359>>, <<7401, 7404>>, <<7406, 7411>>,
      <<7413, 7414>>, <<7418, 7418>>, <<7424, 7615>>, <<7680, 7957>>,
      <<7960, 7965>>, <<7968, 8005>>, <<8008, 8013>>, <<8016, 8023>>,
      <<8025, 8025>>, <<8027, 8027>>, <<8029, 8029>>, <<8031, 8061>>,
      <<8064, 8116>>, <<8118, 8124>>, <<8126, 8126>>, <<8130, 8132>>,
      <<8134, 8140>>, <<8144, 8147>>, <<8150, 8155>>, <<8160, 8172>>,
      <<8178, 8180>>, <<8182, 8188>>, <<8305, 8305>>, <<8319, 8319>>,
      <<8336, 8348>>, <<8450, 8450>>, <<8455, 8455>>, <<8458, 8467>>,
      <<8469, 8469>>, <<8473, 8477>>, <<8484, 8484>>, <<8486, 8486>>,
      <<8488, 8488>>, <<8490, 8493>>, <<8495, 8505>>, <<8508, 8511>>,
      <<8517, 8521>>, <<8526, 8526>>, <<8579, 8580>>, <<11264, 11492>>,
      <<11499, 11502>>, <<11506, 11507>>, <<11520, 11557>>, <<11559, 11559>>,
      <<11565, 11565>>, <<11568, 11623>>, <<11631, 11631>>, <<11648, 11670>>,
      <<11680, 11686>>, <<11688, 11694>>, <<11696, 11702>>, <<11704, 11710>>,
      <<11712, 11718>>, <<11720, 11726>>, <<11728, 11734>>, <<11736, 11742>>,
      <<11823, 11823>>, <<12293, 12294>>, <<12337, 12341>>, <<12347, 12348>>,
      <<12353, 12438>>, <<12445, 12447>>, <<12449, 12538>>, <<12540, 12543>>,
      <<12549, 12591>>, <<12593, 12686>>, <<12704, 12735>>, <<12784, 12799>>,
      <<13312, 19903>>, <<19968, 42124>>, <<42192, 42237>>, <<42240, 42508>>,
      <<42512, 42527>>, <<42538, 42539>>, <<42560, 42606>>, <<42623, 42653>>,
      <<42656, 42725>>, <<42775, 42783>>, <<42786, 42888>>, <<42891, 42954>>,
      <<42960, 42961>>, <<42963, 42963>>, <<42965, 42969>>, <<42994, 43009>>,
      <<43011, 43013>>, <<43015, 43018>>, <<43020, 43042>>, <<43072, 43123>>,
      <<43138, 43187>>, <<43250, 43255>>, <<43259, 43259>>, <<43261, 43262>>,
      <<43274, 43301>>, <<43312, 43334>>, <<43360, 43388>>, <<43396, 43442>>,
      <<43471, 43471>>, <<43488, 43492>>, <<43494, 43503>>, <<43514, 43518>>,
      <<43520, 43560>>, <<43584, 43586>>, <<43588, 43595>>, <<43616, 43638>>,
      <<43642, 43642>>, <<43646, 43695>>, <<43697, 43697>>, <<43701, 43702>>,
      <<43705, 43709>>, <<43712, 43712>>, <<43714, 43714>>, <<43739, 43741>>,
      <<43744, 43754>>, <<43762, 43764>>, <<43777, 43782>>, <<43785, 43790>>,
      <<43793, 43798>>, <<43808, 43814>>, <<43816, 43822>>, <<43824, 43866>>,
      <<43868, 43881>>, <<43888, 44002>>, <<44032, 55203>>, <<55216, 55238>>,
      <<55243, 55291>>, <<63744, 64109>>, <<64112, 64217>>, <<64256, 64262>>,
      <<64275, 64279>>, <<64285, 64285>>, <<64287, 64296>>, <<64298, 64310>>,
      <<64312, 64316>>, <<64318, 64318>>, <<64320, 64321>>, <<64323, 64324>>,
      <<64326, 64433>>, <<64467, 64829>>, <<64848, 64911>>, <<64914, 64967>>,
      <<65008, 65019>>, <<65136, 65140>>, <<65142, 65276>>, <<65313, 65338>>,
      <<65345, 65370>>, <<65382, 65470>>, <<65474, 65479>>, <<65482, 65487>>,
      <<65490, 65495>>, <<65498, 65500>>, <<65536, 65547>>, <<65549, 65574>>,
      <<65576, 65594>>, <<65596, 65597>>, <<65599, 65613>>, <<65616, 65629>>,
      <<65664, 65786>>, <<66176, 66204>>, <<66208, 66256>>, <<66304, 66335>>,
      <<66349, 66368>>, <<66370, 66377>>, <<66384, 66421>>, <<66432, 66461>>,
      <<66464, 66499>>, <<66504, 66511>>, <<66560, 66717>>, <<66736, 66771>>,
      <<66776, 66811>>, <<66816, 66855>>, <<66864, 66915>>, <<66928, 66938>>,
      <<66940, 66954>>, <<66956, 66962>>, <<66964, 66965>>, <<66967, 66977>>,
      <<66979, 66993>>, <<66995, 67001>>, <<67003, 67004>>, <<67072, 67382>>,
      <<67392, 67413>>, <<67424, 67431>>, <<67456, 67461>>, <<67463, 67504>>,
      <<67506, 67514>>, <<67584, 67589>>, <<67592, 67592>>, <<67594, 67637>>,
      <<67639, 67640>>, <<67644, 67644>>, <<67647, 67669>>, <<67680, 67702>>,
      <<67712, 67742>>, <<67808, 67826>>, <<67828, 67829>>, <<67840, 67861>>,
      <<67872, 67897>>, <<67968, 68023>>, <<68030, 68031>>, <<68096, 68096>>,
      <<68112, 68115>>, <<68117, 68119>>, <<68121, 68149>>, <<68192, 68220>>,
      <<68224, 68252>>, <<68288, 68295>>, <<68297, 68324>>, <<68352, 68405>>,
      <<68416, 68437>>, <<68448, 68466>>, <<68480, 68497>>, <<68608, 68680>>,
      <<68736, 68786>>, <<68800, 68850>>, <<68864, 68899>>, <<69248, 69289>>,
      <<69296, 69297>>, <<69376, 69404>>, <<69415, 69415>>, <<69424, 69445>>,
      <<69488, 69505>>, <<69552, 69572>>, <<69600, 69622>>, <<69635, 69687>>,
      <<69745, 69746>>, <<69749, 69749>>, <<69763, 69807>>, <<69840, 69864>>,
      <<69891, 69926>>, <<69956, 69956>>, <<69959, 69959>>, <<69968, 70002>>,
      <<70006, 70006>>, <<70019, 70066>>, <<70081, 70084>>, <<70106, 70106>>,
      <<70108, 70108>>, <<70144, 70161>>, <<70163, 70187>>, <<70272, 70278>>,
      <<70280, 70280>>, <<70282, 70285>>, <<70287, 70301>>, <<70303, 70312>>,
      <<70320, 70366>>, <<70405, 70412>>, <<70415, 70416>>, <<70419, 70440>>,
      <<70442, 70448>>, <<70450, 70451>>, <<70453, 70457>>, <<70461, 70461>>,
      <<70480, 70480>>, <<70493, 70497>>, <<70656, 70708>>, <<70727, 70730>>,
      <<70751, 70753>>, <<70784, 70831>>, <<70852, 70853>>, <<70855, 70855>>,
      <<71040, 71086>>, <<71128, 71131>>, <<71168, 71215>>, <<71236, 71236>>,
      <<71296, 71338>>, <<71352, 71352>>, <<71424, 71450>>, <<71488, 71494>>,
      <<71680, 71723>>, <<71840, 71903>>, <<71935, 71942>>, <<71945, 71945>>,
      <<71948, 71955>>, <<71957, 71958>>, <<71960, 71983>>, <<71999, 71999>>,
      <<72001, 72001>>, <<72096, 72103>>, <<72106, 72144>>, <<72161, 72161>>,
      <<72163, 72163>>, <<72192, 72192>>, <<72203, 72242>>, <<72250, 72250>>,
      <<72272, 72272>>, <<72284, 72329>>, <<72349, 72349>>, <<72368, 72440>>,
      <<72704, 72712>>, <<72714, 72750>>, <<72768, 72768>>, <<72818, 72847>>,
      <<72960, 72966>>, <<72968, 72969>>, <<72971, 73008>>, <<73030, 73030>>,
      <<73056, 73061>>, <<73063, 73064>>, <<73066, 73097>>, <<73112, 73112>>,
      <<73440, 73458>>, <<73648, 73648>>, <<73728, 74649>>, <<74880, 75075>>,
      <<77712, 77808>>, <<77824, 78894>>, <<82944, 83526>>, <<92160, 92728>>,
      <<92736, 92766>>, <<92784, 92862>>, <<92880, 92909>>, <<92928, 92975>>,
      <<92992, 92995>>, <<93027, 93047>>, <<93053, 93071>>, <<93760, 93823>>,
      <<93952, 94026>>, <<94032, 94032>>, <<94099, 94111>>, <<94176, 94177>>,
      <<94179, 94179>>, <<94208, 100343>>, <<100352, 101589>>,
      <<101632, 101640>>, <<110576, 110579>>, <<110581, 110587>>,
      <<110589, 110590>>, <<110592, 110882>>, <<110928, 110930>>,
      <<110948, 110951>>, <<110960, 111355>>, <<113664, 113770>>,
      <<113776, 113788>>, <<113792, 113800>>, <<113808, 113817>>,
      <<119808, 119892>>, <<119894, 119964>>, <<119966, 119967>>,
      <<119970, 119970>>, <<119973, 119974>>, <<119977, 119980>>,
      <<119982, 119993>>, <<119995, 119995>>, <<119997, 120003>>,
      <<120005, 120069>>, <<120071, 120074>>, <<120077, 120084>>,
      <<120086, 120092>>, <<120094, 120121>>, <<120123, 120126>>,
      <<120128, 120132>>, <<120134, 120134>>, <<120138, 120144>>,
      <<120146, 120485>>, <<120488, 120512>>, <<120514, 120538>>,
      <<120540, 120570>>, <<120572, 120596>>, <<120598, 120628>>,
      <<120630, 120654>>, <<120656, 120686>>, <<120688, 120712>>,
      <<120714, 120744>>, <<120746, 120770>>, <<120772, 120779>>,
      <<122624, 122654>>, <<123136, 123180>>, <<123191, 123197>>,
      <<123214, 123214>>, <<123536, 123565>>, <<123584, 123627>>,
      <<124896, 124902>>, <<124904, 124907>>, <<124909, 124910>>,
      <<124912, 124926>>, <<124928, 125124>>, <<125184, 125251>>,
      <<125259, 125259>>, <<126464, 126467>>, <<126469, 126495>>,
      <<126497, 126498>>, <<126500, 126500>>, <<126503, 126503>>,
      <<126505, 126514>>, <<126516, 126519>>, <<126521, 126521>>,
      <<126523, 126523>>, <<126530, 126530>>, <<126535, 126535>>,
      <<126537, 126537>>, <<126539, 126539>>, <<126541, 126543>>,
      <<126545, 126546>>, <<126548, 126548>>, <<126551, 126551>>,
      <<126553, 126553>>, <<126555, 126555>>, <<126557, 126557>>,
      <<126559, 126559>>, <<126561, 126562>>, <<126564, 126564>>,
      <<126567, 126570>>, <<126572, 126578>>, <<126580, 126583>>,
      <<126585, 126588>>, <<126590, 126590>>, <<126592, 126601>>,
      <<126603, 126619>>, <<126625, 126627>>, <<126629, 126633>>,
      <<126635, 126651>>, <<131072, 173791>>, <<173824, 177976>>,
      <<177984, 178205>>, <<178208, 183969>>, <<183984, 191456>>,
      <<194560, 195101>>, <<196608, 201546>>>>

\* The digits from 128 on, as str.isdigit() sees them.
DigitRanges ==
    <<<<178, 179>>, <<185, 185>>, <<1632, 1641>>, <<1776, 1785>>,
      <<1984, 1993>>, <<2406, 2415>>, <<2534, 2543>>, <<2662, 2671>>,
      <<2790, 2799>>, <<2918, 2927>>, <<3046, 3055>>, <<3174, 3183>>,
      <<3302, 3311>>, <<3430, 3439>>, <<3558, 3567>>, <<3664, 3673>>,
      <<3792, 3801>>, <<3872, 3881>>, <<4160, 4169>>, <<4240, 4249>>,
      <<4969, 4977>>, <<6112, 6121>>, <<6160, 6169>>, <<6470, 6479>>,
      <<6608, 6618>>, <<6784, 6793>>, <<6800, 6809>>, <<6992, 7001>>,
      <<7088, 7097>>, <<7232, 7241>>, <<7248, 7257>>, <<8304, 8304>>,
      <<8308, 8313>>, <<8320, 8329>>, <<9312, 9320>>, <<9332, 9340>>,
      <<9352, 9360>>, <<9450, 9450>>, <<9461, 9469>>, <<9471, 9471>>,
      <<10102, 10110>>, <<10112, 10120>>, <<10122, 10130>>, <<42528, 42537>>,
      <<43216, 43225>>, <<43264, 43273>>, <<43472, 43481>>, <<43504, 43513>>,
      <<43600, 43609>>, <<44016, 44025>>, <<65296, 65305>>, <<66720, 66729>>,
      <<68160, 68163>>, <<68912, 68921>>, <<69216, 69224>>, <<69714, 69722>>,
      <<69734, 69743>>, <<69872, 69881>>, <<69942, 69951>>, <<70096, 70105>>,
      <<70384, 70393>>, <<70736, 70745>>, <<70864, 70873>>, <<71248, 71257>>,
      <<71360, 71369>>, <<71472, 71481>>, <<71904, 71913>>, <<72016, 72025>>,
      <<72784, 72793>>, <<73040, 73049>>, <<73120, 73129>>, <<92768, 92777>>,
      <<92864, 92873>>, <<93008, 93017>>, <<120782, 120831>>,
      <<123200, 123209>>, <<123632, 123641>>, <<125264, 125273>>,
      <<127232, 127242>>, <<130032, 130041>>>>

\* The cased characters from 128 on: those str.title() lower-cases the
\* character after.
CasedRanges ==
    <<<<170, 170>>, <<181, 181>>, <<186, 186>>, <<192, 214>>, <<216, 246>>,
      <<248, 442>>, <<444, 447>>, <<452, 659>>, <<661, 696>>, <<704, 705>>,
      <<736, 740>>, <<837, 837>>, <<880, 883>>, <<886, 887>>, <<890, 893>>,
      <<895, 895>>, <<902, 902>>, <<904, 906>>, <<908, 908>>, <<910, 929>>,
      <<931, 1013>>, <<1015, 1153>>, <<1162, 1327>>, <<1329, 1366>>,
      <<1376, 1416>>, <<4256, 4293>>, <<4295, 4295>>, <<4301, 4301>>,
      <<4304, 4346>>, <<4349, 4351>>, <<5024, 5109>>, <<5112, 5117>>,
      <<7296, 7304>>, <<7312, 7354>>, <<7357, 7359>>, <<7424, 7615>>,
      <<7680, 7957>>, <<7960, 7965>>, <<7968, 8005>>, <<8008, 8013>>,
      <<8016, 8023>>, <<8025, 8025>>, <<8027, 8027>>, <<8029, 8029>>,
      <<8031, 8061>>, <<8064, 8116>>, <<8118, 8124>>, <<8126, 8126>>,
      <<8130, 8132>>, <<8134, 8140>>, <<8144, 8147>>, <<8150, 8155>>,
      <<8160, 8172>>, <<8178, 8180>>, <<8182, 8188>>, <<8305, 8305>>,
      <<8319, 8319>>, <<8336, 8348>>, <<8450, 8450>>, <<8455, 8455>>,
      <<8458, 8467>>, <<8469, 8469>>, <<8473, 8477>>, <<8484, 8484>>,
      <<8486, 8486>>, <<8488, 8488>>, <<8490, 8493>>, <<8495, 8500>>,
      <<8505, 8505>>, <<8508, 8511>>, <<8517, 8521>>, <<8526, 8526>>,
      <<8544, 8575>>, <<8579, 8580>>, <<9398, 9449>>, <<11264, 11492>>,
      <<11499, 11502>>, <<11506, 11507>>, <<11520, 11557>>, <<11559, 11559>>,
      <<11565, 11565>>, <<42560, 42605>>, <<42624, 42653>>, <<42786, 42887>>,
      <<42891, 42894>>, <<42896, 42954>>, <<42960, 42961>>, <<42963, 42963>>,
      <<42965, 42969>>, <<42997, 42998>>, <<43000, 43002>>, <<43824, 43866>>,
      <<43868, 43880>>, <<43888, 43967>>, <<64256, 64262>>, <<64275, 64279>>,
      <<65313, 65338>>, <<65345, 65370>>, <<66560, 66639>>, <<66736, 66771>>,
      <<66776, 66811>>, <<66928, 66938>>, <<66940, 66954>>, <<66956, 66962>>,
      <<66964, 66965>>, <<66967, 66977>>, <<66979, 66993>>, <<66995, 67001>>,
      <<67003, 67004>>, <<67456, 67456>>, <<67459, 67461>>, <<67463, 67504>>,
      <<67506, 67514>>, <<68736, 68786>>, <<68800, 68850>>, <<71840, 71903>>,
      <<93760, 93823>>, <<119808, 119892>>, <<119894, 119964>>,
      <<119966, 119967>>, <<119970, 119970>>, <<119973, 119974>>,
      <<119977, 119980>>, <<119982, 119993>>, <<119995, 119995>>,
      <<119997, 120003>>, <<120005, 120069>>, <<120071, 120074>>,
      <<120077, 120084>>, <<120086, 120092>>, <<120094, 120121>>,
      <<120123, 120126>>, <<120128, 120132>>, <<120134, 120134>>,
      <<120138, 120144>>, <<120146, 120485>>, <<120488, 120512>>,
      <<120514, 120538>>, <<120540, 120570>>, <<120572, 120596>>,
      <<120598, 120628>>, <<120630, 120654>>, <<120656, 120686>>,
      <<120688, 120712>>, <<120714, 120744>>, <<120746, 120770>>,
      <<120772, 120779>>, <<122624, 122633>>, <<122635, 122654>>,
      <<125184, 125251>>, <<127280, 127305>>, <<127312, 127337>>,
      <<127344, 127369>>>>

\* The case-ignorable characters, below 128 and from 128 on: str.lower()
\* looks past them around a capital sigma.
AsciiCaseIgnorable == <<<<39, 39>>, <<46, 46>>, <<58, 58>>, <<94, 94>>, <<96, 96>>>>
CaseIgnorableRanges ==
    <<<<168, 168>>, <<173, 173>>, <<175, 175>>, <<180, 180>>, <<183, 184>>,
      <<688, 879>>, <<884, 885>>, <<890, 890>>, <<900, 901>>, <<903, 903>>,
      <<1155, 1161>>, <<1369, 1369>>, <<1375, 1375>>, <<1425, 1469>>,
      <<1471, 1471>>, <<1473, 1474>>, <<1476, 1477>>, <<1479, 1479>>,
      <<1524, 1524>>, <<1536, 1541>>, <<1552, 1562>>, <<1564, 1564>>,
      <<1600, 1600>>, <<1611, 1631>>, <<1648, 1648>>, <<1750, 1757>>,
      <<1759, 1768>>, <<1770, 1773>>, <<1807, 1807>>, <<1809, 1809>>,
      <<1840, 1866>>, <<1958, 1968>>, <<2027, 2037>>, <<2042, 2042>>,
      <<2045, 2045>>, <<2070, 2093>>, <<2137, 2139>>, <<2184, 2184>>,
      <<2192, 2193>>, <<2200, 2207>>, <<2249, 2306>>, <<2362, 2362>>,
      <<2364, 2364>>, <<2369, 2376>>, <<2381, 2381>>, <<2385, 2391>>,
      <<2402, 2403>>, <<2417, 2417>>, <<2433, 2433>>, <<2492, 2492>>,
      <<2497, 2500>>, <<2509, 2509>>, <<2530, 2531>>, <<2558, 2558>>,
      <<2561, 2562>>, <<2620, 2620>>, <<2625, 2626>>, <<2631, 2632>>,
      <<2635, 2637>>, <<2641, 2641>>, <<2672, 2673>>, <<2677, 2677>>,
      <<2689, 2690>>, <<2748, 2748>>, <<2753, 2757>>, <<2759, 2760>>,
      <<2765, 2765>>, <<2786, 2787>>, <<2810, 2815>>, <<2817, 2817>>,
      <<2876, 2876>>, <<2879, 2879>>, <<2881, 2884>>, <<2893, 2893>>,
      <<2901, 2902>>, <<2914, 2915>>, <<2946, 2946>>, <<3008, 3008>>,
      <<3021, 3021>>, <<3072, 3072>>, <<3076, 3076>>, <<3132, 3132>>,
      <<3134, 3136>>, <<3142, 3144>>, <<3146, 3149>>, <<3157, 3158>>,
      <<3170, 3171>>, <<3201, 3201>>, <<3260, 3260>>, <<3263, 3263>>,
      <<3270, 3270>>, <<3276, 3277>>, <<3298, 3299>>, <<3328, 3329>>,
      <<3387, 3388>>, <<3393, 3396>>, <<3405, 3405>>, <<3426, 3427>>,
      <<3457, 3457>>, <<3530, 3530>>, <<3538, 3540>>, <<3542, 3542>>,
      <<3633, 3633>>, <<3636, 3642>>, <<3654, 3662>>, <<3761, 3761>>,
      <<3764, 3772>>, <<3782, 3782>>, <<3784, 3789>>, <<3864, 3865>>,
      <<3893, 3893>>, <<3895, 3895>>, <<3897, 3897>>, <<3953, 3966>>,
      <<3968, 3972>>, <<3974, 3975>>, <<3981, 3991>>, <<3993, 4028>>,
      <<4038, 4038>>, <<4141, 4144>>, <<4146, 4151>>, <<4153, 4154>>,
      <<4157, 4158>>, <<4184, 4185>>, <<4190, 4192>>, <<4209, 4212>>,
      <<4226, 4226>>, <<4229, 4230>>, <<4237, 4237>>, <<4253, 4253>>,
      <<4348, 4348>>, <<4957, 4959>>, <<5906, 5908>>, <<5938, 5939>>,
      <<5970, 5971>>, <<6002, 6003>>, <<6068, 6069>>, <<6071, 6077>>,
      <<6086, 6086>>, <<6089, 6099>>, <<6103, 6103>>, <<6109, 6109>>,
      <<6155, 6159>>, <<6211, 6211>>, <<6277, 6278>>, <<6313, 6313>>,
      <<6432, 6434>>, <<6439, 6440>>, <<6450, 6450>>, <<6457, 6459>>,
      <<6679, 6680>>, <<6683, 6683>>, <<6742, 6742>>, <<6744, 6750>>,
      <<6752, 6752>>, <<6754, 6754>>, <<6757, 6764>>, <<6771, 6780>>,
      <<6783, 6783>>, <<6823, 6823>>, <<6832, 6862>>, <<6912, 6915>>,
      <<6964, 6964>>, <<6966, 6970>>, <<6972, 6972>>, <<6978, 6978>>,
      <<7019, 7027>>, <<7040, 7041>>, <<7074, 7077>>, <<7080, 7081>>,
      <<7083, 7085>>, <<7142, 7142>>, <<7144, 7145>>, <<7149, 7149>>,
      <<7151, 7153>>, <<7212, 7219>>, <<7222, 7223>>, <<7288, 7293>>,
      <<7376, 7378>>, <<7380, 7392>>, <<7394, 7400>>, <<7405, 7405>>,
      <<7412, 7412>>, <<7416, 7417>>, <<7468, 7530>>, <<7544, 7544>>,
      <<7579, 7679>>, <<8125, 8125>>, <<8127, 8129>>, <<8141, 8143>>,
      <<8157, 8159>>, <<8173, 8175>>, <<8189, 8190>>, <<8203, 8207>>,
      <<8216, 8217>>, <<8228, 8228>>, <<8231, 8231>>, <<8234, 8238>>,
      <<8288, 8292>>, <<8294, 8303>>, <<8305, 8305>>, <<8319, 8319>>,
      <<8336, 8348>>, <<8400, 8432>>, <<11388, 11389>>, <<11503, 11505>>,
      <<11631, 11631>>, <<11647, 11647>>, <<11744, 11775>>, <<11823, 11823>>,
      <<12293, 12293>>, <<12330, 12333>>, <<12337, 12341>>, <<12347, 12347>>,
      <<12441, 12446>>, <<12540, 12542>>, <<40981, 40981>>, <<42232, 42237>>,
      <<42508, 42508>>, <<42607, 42610>>, <<42612, 42621>>, <<42623, 42623>>,
      <<42652, 42655>>, <<42736, 42737>>, <<42752, 42785>>, <<42864, 42864>>,
      <<42888, 42890>>, <<42994, 42996>>, <<43000, 43001>>, <<43010, 43010>>,
      <<43014, 43014>>, <<43019, 43019>>, <<43045, 43046>>, <<43052, 43052>>,
      <<43204, 43205>>, <<43232, 43249>>, <<43263, 43263>>, <<43302, 43309>>,
      <<43335, 43345>>, <<43392, 43394>>, <<43443, 43443>>, <<43446, 43449>>,
      <<43452, 43453>>, <<43471, 43471>>, <<43493, 43494>>, <<43561, 43566>>,
      <<43569, 43570>>, <<43573, 43574>>, <<43587, 43587>>, <<43596, 43596>>,
      <<43632, 43632>>, <<43644, 43644>>, <<43696, 43696>>, <<43698, 43700>>,
      <<43703, 43704>>, <<43710, 43711>>, <<43713, 43713>>, <<43741, 43741>>,
      <<43756, 43757>>, <<43763, 43764>>, <<43766, 43766>>, <<43867, 43871>>,
      <<43881, 43883>>, <<44005, 44005>>, <<44008, 44008>>, <<44013, 44013>>,
      <<64286, 64286>>, <<64434, 64450>>, <<65024, 65039>>, <<65043, 65043>>,
      <<65056, 65071>>, <<65106, 65106>>, <<65109, 65109>>, <<65279, 65279>>,
      <<65287, 65287>>, <<65294, 65294>>, <<65306, 65306>>, <<65342, 65342>>,
      <<65344, 65344>>, <<65392, 65392>>, <<65438, 65439>>, <<65507, 65507>>,
      <<65529, 65531>>, <<66045, 66045>>, <<66272, 66272>>, <<66422, 66426>>,
      <<67456, 67461>>, <<67463, 67504>>, <<67506, 67514>>, <<68097, 68099>>,
      <<68101, 68102>>, <<68108, 68111>>, <<68152, 68154>>, <<68159, 68159>>,
      <<68325, 68326>>, <<68900, 68903>>, <<69291, 69292>>, <<69446, 69456>>,
      <<69506, 69509>>, <<69633, 69633>>, <<69688, 69702>>, <<69744, 69744>>,
      <<69747, 69748>>, <<69759, 69761>>, <<69811, 69814>>, <<69817, 69818>>,
      <<69821, 69821>>, <<69826, 69826>>, <<69837, 69837>>, <<69888, 69890>>,
      <<69927, 69931>>, <<69933, 69940>>, <<70003, 70003>>, <<70016, 70017>>,
      <<70070, 70078>>, <<70089, 70092>>, <<70095, 70095>>, <<70191, 70193>>,
      <<70196, 70196>>, <<70198, 70199>>, <<70206, 70206>>, <<70367, 70367>>,
      <<70371, 70378>>, <<70400, 70401>>, <<70459, 70460>>, <<70464, 70464>>,
      <<70502, 70508>>, <<70512, 70516>>, <<70712, 70719>>, <<70722, 70724>>,
      <<70726, 70726>>, <<70750, 70750>>, <<70835, 70840>>, <<70842, 70842>>,
      <<70847, 70848>>, <<70850, 70851>>, <<71090, 71093>>, <<71100, 71101>>,
      <<71103, 71104>>, <<71132, 71133>>, <<71219, 71226>>, <<71229, 71229>>,
      <<71231, 71232>>, <<71339, 71339>>, <<71341, 71341>>, <<71344, 71349>>,
      <<71351, 71351>>, <<71453, 71455>>, <<71458, 71461>>, <<71463, 71467>>,
      <<71727, 71735>>, <<71737, 71738>>, <<71995, 71996>>, <<71998, 71998>>,
      <<72003, 72003>>, <<72148, 72151>>, <<72154, 72155>>, <<72160, 72160>>,
      <<72193, 72202>>, <<72243, 72248>>, <<72251, 72254>>, <<72263, 72263>>,
      <<72273, 72278>>, <<72281, 72283>>, <<72330, 72342>>, <<72344, 72345>>,
      <<72752, 72758>>, <<72760, 72765>>, <<72767, 72767>>, <<72850, 72871>>,
      <<72874, 72880>>, <<72882, 72883>>, <<72885, 72886>>, <<73009, 73014>>,
      <<73018, 73018>>, <<73020, 73021>>, <<73023, 73029>>, <<73031, 73031>>,
      <<73104, 73105>>, <<73109, 73109>>, <<73111, 73111>>, <<73459, 73460>>,
      <<78896, 78904>>, <<92912, 92916>>, <<92976, 92982>>, <<92992, 92995>>,
      <<94031, 94031>>, <<94095, 94111>>, <<94176, 94177>>, <<94179, 94180>>,
      <<110576, 110579>>, <<110581, 110587>>, <<110589, 110590>>,
      <<113821, 113822>>, <<113824, 113827>>, <<118528, 118573>>,
      <<118576, 118598>>, <<119143, 119145>>, <<119155, 119170>>,
      <<119173, 119179>>, <<119210, 119213>>, <<119362, 119364>>,
      <<121344, 121398>>, <<121403, 121452>>, <<121461, 121461>>,
      <<121476, 121476>>, <<121499, 121503>>, <<121505, 121519>>,
      <<122880, 122886>>, <<122888, 122904>>, <<122907, 122913>>,
      <<122915, 122916>>, <<122918, 122922>>, <<123184, 123197>>,
      <<123566, 123566>>, <<123628, 123631>>, <<125136, 125142>>,
      <<125252, 125259>>, <<127995, 127999>>, <<917505, 917505>>,
      <<917536, 917631>>, <<917760, 917999>>>>

\* str.lower() of one character: <<first, last, d>> sends the characters c of
\* first..last to c + d.
AsciiLower == <<<<65, 90, 32>>>>
LowerRuns ==
    <<<<192, 214, 32>>, <<216, 222, 32>>, <<256, 256, 1>>, <<258, 258, 1>>,
      <<260, 260, 1>>, <<262, 262, 1>>, <<264, 264, 1>>, <<266, 266, 1>>,
      <<268, 268, 1>>, <<270, 270, 1>>, <<272, 272, 1>>, <<274, 274, 1>>,
      <<276, 276, 1>>, <<278, 278, 1>>, <<280, 280, 1>>, <<282, 282, 1>>,
      <<284, 284, 1>>, <<286, 286, 1>>, <<288, 288, 1>>, <<290, 290, 1>>,
      <<292, 292, 1>>, <<294, 294, 1>>, <<296, 296, 1>>, <<298, 298, 1>>,
      <<300, 300, 1>>, <<302, 302, 1>>, <<306, 306, 1>>, <<308, 308, 1>>,
      <<310, 310, 1>>, <<313, 313, 1>>, <<315, 315, 1>>, <<317, 317, 1>>,
      <<319, 319, 1>>, <<321, 321, 1>>, <<323, 323, 1>>, <<325, 325, 1>>,
      <<327, 327, 1>>, <<330, 330, 1>>, <<332, 332, 1>>, <<334, 334, 1>>,
      <<336, 336, 1>>, <<338, 338, 1>>, <<340, 340, 1>>, <<342, 342, 1>>,
      <<344, 344, 1>>, <<346, 346, 1>>, <<348, 348, 1>>, <<350, 350, 1>>,
      <<352, 352, 1>>, <<354, 354, 1>>, <<356, 356, 1>>, <<358, 358, 1>>,
      <<360, 360, 1>>, <<362, 362, 1>>, <<364, 364, 1>>, <<366, 366, 1>>,
      <<368, 368, 1>>, <<370, 370, 1>>, <<372, 372, 1>>, <<374, 374, 1>>,
      <<376, 376, 0 - 121>>, <<377, 377, 1>>, <<379, 379, 1>>,
      <<381, 381, 1>>, <<385, 385, 210>>, <<386, 386, 1>>, <<388, 388, 1>>,
      <<390, 390, 206>>, <<391, 391, 1>>, <<393, 394, 205>>, <<395, 395, 1>>,
      <<398, 398, 79>>, <<399, 399, 202>>, <<400, 400, 203>>, <<401, 401, 1>>,
      <<403, 403, 205>>, <<404, 404, 207>>, <<406, 406, 211>>,
      <<407, 407, 209>>, <<408, 408, 1>>, <<412, 412, 211>>,
      <<413, 413, 213>>, <<415, 415, 214>>, <<416, 416, 1>>, <<418, 418, 1>>,
      <<420, 420, 1>>, <<422, 422, 218>>, <<423, 423, 1>>, <<425, 425, 218>>,
      <<428, 428, 1>>, <<430, 430, 218>>, <<431, 431, 1>>, <<433, 434, 217>>,
      <<435, 435, 1>>, <<437, 437, 1>>, <<439, 439, 219>>, <<440, 440, 1>>,
      <<444, 444, 1>>, <<452, 452, 2>>, <<453, 453, 1>>, <<455, 455, 2>>,
      <<456, 456, 1>>, <<458, 458, 2>>, <<459, 459, 1>>, <<461, 461, 1>>,
      <<463, 463, 1>>, <<465, 465, 1>>, <<467, 467, 1>>, <<469, 469, 1>>,
      <<471, 471, 1>>, <<473, 473, 1>>, <<475, 475, 1>>, <<478, 478, 1>>,
      <<480, 480, 1>>, <<482, 482, 1>>, <<484, 484, 1>>, <<486, 486, 1>>,
      <<488, 488, 1>>, <<490, 490, 1>>, <<492, 492, 1>>, <<494, 494, 1>>,
      <<497, 497, 2>>, <<498, 498, 1>>, <<500, 500, 1>>, <<502, 502, 0 - 97>>,
      <<503, 503, 0 - 56>>, <<504, 504, 1>>, <<506, 506, 1>>, <<508, 508, 1>>,
      <<510, 510, 1>>, <<512, 512, 1>>, <<514, 514, 1>>, <<516, 516, 1>>,
      <<518, 518, 1>>, <<520, 520, 1>>, <<522, 522, 1>>, <<524, 524, 1>>,
      <<526, 526, 1>>, <<528, 528, 1>>, <<530, 530, 1>>, <<532, 532, 1>>,
      <<534, 534, 1>>, <<536, 536, 1>>, <<538, 538, 1>>, <<540, 540, 1>>,
      <<542, 542, 1>>, <<544, 544, 0 - 130>>, <<546, 546, 1>>,
      <<548, 548, 1>>, <<550, 550, 1>>, <<552, 552, 1>>, <<554, 554, 1>>,
      <<556, 556, 1>>, <<558, 558, 1>>, <<560, 560, 1>>, <<562, 562, 1>>,
      <<570, 570, 10795>>, <<571, 571, 1>>, <<573, 573, 0 - 163>>,
      <<574, 574, 10792>>, <<577, 577, 1>>, <<579, 579, 0 - 195>>,
      <<580, 580, 69>>, <<581, 581, 71>>, <<582, 582, 1>>, <<584, 584, 1>>,
      <<586, 586, 1>>, <<588, 588, 1>>, <<590, 590, 1>>, <<880, 880, 1>>,
      <<882, 882, 1>>, <<886, 886, 1>>, <<895, 895, 116>>, <<902, 902, 38>>,
      <<904, 906, 37>>, <<908, 908, 64>>, <<910, 911, 63>>, <<913, 929, 32>>,
      <<931, 939, 32>>, <<975, 975, 8>>, <<984, 984, 1>>, <<986, 986, 1>>,
      <<988, 988, 1>>, <<990, 990, 1>>, <<992, 992, 1>>, <<994, 994, 1>>,
      <<996, 996, 1>>, <<998, 998, 1>>, <<1000, 1000, 1>>, <<1002, 1002, 1>>,
      <<1004, 1004, 1>>, <<1006, 1006, 1>>, <<1012, 1012, 0 - 60>>,
      <<1015, 1015, 1>>, <<1017, 1017, 0 - 7>>, <<1018, 1018, 1>>,
      <<1021, 1023, 0 - 130>>, <<1024, 1039, 80>>, <<1040, 1071, 32>>,
      <<1120, 1120, 1>>, <<1122, 1122, 1>>, <<1124, 1124, 1>>,
      <<1126, 1126, 1>>, <<1128, 1128, 1>>, <<1130, 1130, 1>>,
      <<1132, 1132, 1>>, <<1134, 1134, 1>>, <<1136, 1136, 1>>,
      <<1138, 1138, 1>>, <<1140, 1140, 1>>, <<1142, 1142, 1>>,
      <<1144, 1144, 1>>, <<1146, 1146, 1>>, <<1148, 1148, 1>>,
      <<1150, 1150, 1>>, <<1152, 1152, 1>>, <<1162, 1162, 1>>,
      <<1164, 1164, 1>>, <<1166, 1166, 1>>, <<1168, 1168, 1>>,
      <<1170, 1170, 1>>, <<1172, 1172, 1>>, <<1174, 1174, 1>>,
      <<1176, 1176, 1>>, <<1178, 1178, 1>>, <<1180, 1180, 1>>,
      <<1182, 1182, 1>>, <<1184, 1184, 1>>, <<1186, 1186, 1>>,
      <<1188, 1188, 1>>, <<1190, 1190, 1>>, <<1192, 1192, 1>>,
      <<1194, 1194, 1>>, <<1196, 1196, 1>>, <<1198, 1198, 1>>,
      <<1200, 1200, 1>>, <<1202, 1202, 1>>, <<1204, 1204, 1>>,
      <<1206, 1206, 1>>, <<1208, 1208, 1>>, <<1210, 1210, 1>>,
      <<1212, 1212, 1>>, <<1214, 1214, 1>>, <<1216, 1216, 15>>,
      <<1217, 1217, 1>>, <<1219, 1219, 1>>, <<1221, 1221, 1>>,
      <<1223, 1223, 1>>, <<1225, 1225, 1>>, <<1227, 1227, 1>>,
      <<1229, 1229, 1>>, <<1232, 1232, 1>>, <<1234, 1234, 1>>,
      <<1236, 1236, 1>>, <<1238, 1238, 1>>, <<1240, 1240, 1>>,
      <<1242, 1242, 1>>, <<1244, 1244, 1>>, <<1246, 1246, 1>>,
      <<1248, 1248, 1>>, <<1250, 1250, 1>>, <<1252, 1252, 1>>,
      <<1254, 1254, 1>>, <<1256, 1256, 1>>, <<1258, 1258, 1>>,
      <<1260, 1260, 1>>, <<1262, 1262, 1>>, <<1264, 1264, 1>>,
      <<1266, 1266, 1>>, <<1268, 1268, 1>>, <<1270, 1270, 1>>,
      <<1272, 1272, 1>>, <<1274, 1274, 1>>, <<1276, 1276, 1>>,
      <<1278, 1278, 1>>, <<1280, 1280, 1>>, <<1282, 1282, 1>>,
      <<1284, 1284, 1>>, <<1286, 1286, 1>>, <<1288, 1288, 1>>,
      <<1290, 1290, 1>>, <<1292, 1292, 1>>, <<1294, 1294, 1>>,
      <<1296, 1296, 1>>, <<1298, 1298, 1>>, <<1300, 1300, 1>>,
      <<1302, 1302, 1>>, <<1304, 1304, 1>>, <<1306, 1306, 1>>,
      <<1308, 1308, 1>>, <<1310, 1310, 1>>, <<1312, 1312, 1>>,
      <<1314, 1314, 1>>, <<1316, 1316, 1>>, <<1318, 1318, 1>>,
      <<1320, 1320, 1>>, <<1322, 1322, 1>>, <<1324, 1324, 1>>,
      <<1326, 1326, 1>>, <<1329, 1366, 48>>, <<4256, 4293, 7264>>,
      <<4295, 4295, 7264>>, <<4301, 4301, 7264>>, <<5024, 5103, 38864>>,
      <<5104, 5109, 8>>, <<7312, 7354, 0 - 3008>>, <<7357, 7359, 0 - 3008>>,
      <<7680, 7680, 1>>, <<7682, 7682, 1>>, <<7684, 7684, 1>>,
      <<7686, 7686, 1>>, <<7688, 7688, 1>>, <<7690, 7690, 1>>,
      <<7692, 7692, 1>>, <<7694, 7694, 1>>, <<7696, 7696, 1>>,
      <<7698, 7698, 1>>, <<7700, 7700, 1>>, <<7702, 7702, 1>>,
      <<7704, 7704, 1>>, <<7706, 7706, 1>>, <<7708, 7708, 1>>,
      <<7710, 7710, 1>>, <<7712, 7712, 1>>, <<7714, 7714, 1>>,
      <<7716, 7716, 1>>, <<7718, 7718, 1>>, <<7720, 7720, 1>>,
      <<7722, 7722, 1>>, <<7724, 7724, 1>>, <<7726, 7726, 1>>,
      <<7728, 7728, 1>>, <<7730, 7730, 1>>, <<7732, 7732, 1>>,
      <<7734, 7734, 1>>, <<7736, 7736, 1>>, <<7738, 7738, 1>>,
      <<7740, 7740, 1>>, <<7742, 7742, 1>>, <<7744, 7744, 1>>,
      <<7746, 7746, 1>>, <<7748, 7748, 1>>, <<7750, 7750, 1>>,
      <<7752, 7752, 1>>, <<7754, 7754, 1>>, <<7756, 7756, 1>>,
      <<7758, 7758, 1>>, <<7760, 7760, 1>>, <<7762, 7762, 1>>,
      <<7764, 7764, 1>>, <<7766, 7766, 1>>, <<7768, 7768, 1>>,
      <<7770, 7770, 1>>, <<7772, 7772, 1>>, <<7774, 7774, 1>>,
      <<7776, 7776, 1>>, <<7778, 7778, 1>>, <<7780, 7780, 1>>,
      <<7782, 7782, 1>>, <<7784, 7784, 1>>, <<7786, 7786, 1>>,
      <<7788, 7788, 1>>, <<7790, 7790, 1>>, <<7792, 7792, 1>>,
      <<7794, 7794, 1>>, <<7796, 7796, 1>>, <<7798, 7798, 1>>,
      <<7800, 7800, 1>>, <<7802, 7802, 1>>, <<7804, 7804, 1>>,
      <<7806, 7806, 1>>, <<7808, 7808, 1>>, <<7810, 7810, 1>>,
      <<7812, 7812, 1>>, <<7814, 7814, 1>>, <<7816, 7816, 1>>,
      <<7818, 7818, 1>>, <<7820, 7820, 1>>, <<7822, 7822, 1>>,
      <<7824, 7824, 1>>, <<7826, 7826, 1>>, <<7828, 7828, 1>>,
      <<7838, 7838, 0 - 7615>>, <<7840, 7840, 1>>, <<7842, 7842, 1>>,
      <<7844, 7844, 1>>, <<7846, 7846, 1>>, <<7848, 7848, 1>>,
      <<7850, 7850, 1>>, <<7852, 7852, 1>>, <<7854, 7854, 1>>,
      <<7856, 7856, 1>>, <<7858, 7858, 1>>, <<7860, 7860, 1>>,
      <<7862, 7862, 1>>, <<7864, 7864, 1>>, <<7866, 7866, 1>>,
      <<7868, 7868, 1>>, <<7870, 7870, 1>>, <<7872, 7872, 1>>,
      <<7874, 7874, 1>>, <<7876, 7876, 1>>, <<7878, 7878, 1>>,
      <<7880, 7880, 1>>, <<7882, 7882, 1>>, <<7884, 7884, 1>>,
      <<7886, 7886, 1>>, <<7888, 7888, 1>>, <<7890, 7890, 1>>,
      <<7892, 7892, 1>>, <<7894, 7894, 1>>, <<7896, 7896, 1>>,
      <<7898, 7898, 1>>, <<7900, 7900, 1>>, <<7902, 7902, 1>>,
      <<7904, 7904, 1>>, <<7906, 7906, 1>>, <<7908, 7908, 1>>,
      <<7910, 7910, 1>>, <<7912, 7912, 1>>, <<7914, 7914, 1>>,
      <<7916, 7916, 1>>, <<7918, 7918, 1>>, <<7920, 7920, 1>>,
      <<7922, 7922, 1>>, <<7924, 7924, 1>>, <<7926, 7926, 1>>,
      <<7928, 7928, 1>>, <<7930, 7930, 1>>, <<7932, 7932, 1>>,
      <<7934, 7934, 1>>, <<7944, 7951, 0 - 8>>, <<7960, 7965, 0 - 8>>,
      <<7976, 7983, 0 - 8>>, <<7992, 7999, 0 - 8>>, <<8008, 8013, 0 - 8>>,
      <<8025, 8025, 0 - 8>>, <<8027, 8027, 0 - 8>>, <<8029, 8029, 0 - 8>>,
      <<8031, 8031, 0 - 8>>, <<8040, 8047, 0 - 8>>, <<8072, 8079, 0 - 8>>,
      <<8088, 8095, 0 - 8>>, <<8104, 8111, 0 - 8>>, <<8120, 8121, 0 - 8>>,
      <<8122, 8123, 0 - 74>>, <<8124, 8124, 0 - 9>>, <<8136, 8139, 0 - 86>>,
      <<8140, 8140, 0 - 9>>, <<8152, 8153, 0 - 8>>, <<8154, 8155, 0 - 100>>,
      <<8168, 8169, 0 - 8>>, <<8170, 8171, 0 - 112>>, <<8172, 8172, 0 - 7>>,
      <<8184, 8185, 0 - 128>>, <<8186, 8187, 0 - 126>>, <<8188, 8188, 0 - 9>>,
      <<8486, 8486, 0 - 7517>>, <<8490, 8490, 0 - 8383>>,
      <<8491, 8491, 0 - 8262>>, <<8498, 8498, 28>>, <<8544, 8559, 16>>,
      <<8579, 8579, 1>>, <<9398, 9423, 26>>, <<11264, 11311, 48>>,
      <<11360, 11360, 1>>, <<11362, 11362, 0 - 10743>>,
      <<11363, 11363, 0 - 3814>>, <<11364, 11364, 0 - 10727>>,
      <<11367, 11367, 1>>, <<11369, 11369, 1>>, <<11371, 11371, 1>>,
      <<11373, 11373, 0 - 10780>>, <<11374, 11374, 0 - 10749>>,
      <<11375, 11375, 0 - 10783>>, <<11376, 11376, 0 - 10782>>,
      <<11378, 11378, 1>>, <<11381, 11381, 1>>, <<11390, 11391, 0 - 10815>>,
      <<11392, 11392, 1>>, <<11394, 11394, 1>>, <<11396, 11396, 1>>,
      <<11398, 11398, 1>>, <<11400, 11400, 1>>, <<11402, 11402, 1>>,
      <<11404, 11404, 1>>, <<11406, 11406, 1>>, <<11408, 11408, 1>>,
      <<11410, 11410, 1>>, <<11412, 11412, 1>>, <<11414, 11414, 1>>,
      <<11416, 11416, 1>>, <<11418, 11418, 1>>, <<11420, 11420, 1>>,
      <<11422, 11422, 1>>, <<11424, 11424, 1>>, <<11426, 11426, 1>>,
      <<11428, 11428, 1>>, <<11430, 11430, 1>>, <<11432, 11432, 1>>,
      <<11434, 11434, 1>>, <<11436, 11436, 1>>, <<11438, 11438, 1>>,
      <<11440, 11440, 1>>, <<11442, 11442, 1>>, <<11444, 11444, 1>>,
      <<11446, 11446, 1>>, <<11448, 11448, 1>>, <<11450, 11450, 1>>,
      <<11452, 11452, 1>>, <<11454, 11454, 1>>, <<11456, 11456, 1>>,
      <<11458, 11458, 1>>, <<11460, 11460, 1>>, <<11462, 11462, 1>>,
      <<11464, 11464, 1>>, <<11466, 11466, 1>>, <<11468, 11468, 1>>,
      <<11470, 11470, 1>>, <<11472, 11472, 1>>, <<11474, 11474, 1>>,
      <<11476, 11476, 1>>, <<11478, 11478, 1>>, <<11480, 11480, 1>>,
      <<11482, 11482, 1>>, <<11484, 11484, 1>>, <<11486, 11486, 1>>,
      <<11488, 11488, 1>>, <<11490, 11490, 1>>, <<11499, 11499, 1>>,
      <<11501, 11501, 1>>, <<11506, 11506, 1>>, <<42560, 42560, 1>>,
      <<42562, 42562, 1>>, <<42564, 42564, 1>>, <<42566, 42566, 1>>,
      <<42568, 42568, 1>>, <<42570, 42570, 1>>, <<42572, 42572, 1>>,
      <<42574, 42574, 1>>, <<42576, 42576, 1>>, <<42578, 42578, 1>>,
      <<42580, 42580, 1>>, <<42582, 42582, 1>>, <<42584, 42584, 1>>,
      <<42586, 42586, 1>>, <<42588, 42588, 1>>, <<42590, 42590, 1>>,
      <<42592, 42592, 1>>, <<42594, 42594, 1>>, <<42596, 42596, 1>>,
      <<42598, 42598, 1>>, <<42600, 42600, 1>>, <<42602, 42602, 1>>,
      <<42604, 42604, 1>>, <<42624, 42624, 1>>, <<42626, 42626, 1>>,
      <<42628, 42628, 1>>, <<42630, 42630, 1>>, <<42632, 42632, 1>>,
      <<42634, 42634, 1>>, <<42636, 42636, 1>>, <<42638, 42638, 1>>,
      <<42640, 42640, 1>>, <<42642, 42642, 1>>, <<42644, 42644, 1>>,
      <<42646, 42646, 1>>, <<42648, 42648, 1>>, <<42650, 42650, 1>>,
      <<42786, 42786, 1>>, <<42788, 42788, 1>>, <<42790, 42790, 1>>,
      <<42792, 42792, 1>>, <<42794, 42794, 1>>, <<42796, 42796, 1>>,
      <<42798, 42798, 1>>, <<42802, 42802, 1>>, <<42804, 42804, 1>>,
      <<42806, 42806, 1>>, <<42808, 42808, 1>>, <<42810, 42810, 1>>,
      <<42812, 42812, 1>>, <<42814, 42814, 1>>, <<42816, 42816, 1>>,
      <<42818, 42818, 1>>, <<42820, 42820, 1>>, <<42822, 42822, 1>>,
      <<42824, 42824, 1>>, <<42826, 42826, 1>>, <<42828, 42828, 1>>,
      <<42830, 42830, 1>>, <<42832, 42832, 1>>, <<42834, 42834, 1>>,
      <<42836, 42836, 1>>, <<42838, 42838, 1>>, <<42840, 42840, 1>>,
      <<42842, 42842, 1>>, <<42844, 42844, 1>>, <<42846, 42846, 1>>,
      <<42848, 42848, 1>>, <<42850, 42850, 1>>, <<42852, 42852, 1>>,
      <<42854, 42854, 1>>, <<42856, 42856, 1>>, <<42858, 42858, 1>>,
      <<42860, 42860, 1>>, <<42862, 42862, 1>>, <<42873, 42873, 1>>,
      <<42875, 42875, 1>>, <<42877, 42877, 0 - 35332>>, <<42878, 42878, 1>>,
      <<42880, 42880, 1>>, <<42882, 42882, 1>>, <<42884, 42884, 1>>,
      <<42886, 42886, 1>>, <<42891, 42891, 1>>, <<42893, 42893, 0 - 42280>>,
      <<42896, 42896, 1>>, <<42898, 42898, 1>>, <<42902, 42902, 1>>,
      <<42904, 42904, 1>>, <<42906, 42906, 1>>, <<42908, 42908, 1>>,
      <<42910, 42910, 1>>, <<42912, 42912, 1>>, <<42914, 42914, 1>>,
      <<42916, 42916, 1>>, <<42918, 42918, 1>>, <<42920, 42920, 1>>,
      <<42922, 42922, 0 - 42308>>, <<42923, 42923, 0 - 42319>>,
      <<42924, 42924, 0 - 42315>>, <<42925, 42925, 0 - 42305>>,
      <<42926, 42926, 0 - 42308>>, <<42928, 42928, 0 - 42258>>,
      <<42929, 42929, 0 - 42282>>, <<42930, 42930, 0 - 42261>>,
      <<42931, 42931, 928>>, <<42932, 42932, 1>>, <<42934, 42934, 1>>,
      <<42936, 42936, 1>>, <<42938, 42938, 1>>, <<42940, 42940, 1>>,
      <<42942, 42942, 1>>, <<42944, 42944, 1>>, <<42946, 42946, 1>>,
      <<42948, 42948, 0 - 48>>, <<42949, 42949, 0 - 42307>>,
      <<42950, 42950, 0 - 35384>>, <<42951, 42951, 1>>, <<42953, 42953, 1>>,
      <<42960, 42960, 1>>, <<42966, 42966, 1>>, <<42968, 42968, 1>>,
      <<42997, 42997, 1>>, <<65313, 65338, 32>>, <<66560, 66599, 40>>,
      <<66736, 66771, 40>>, <<66928, 66938, 39>>, <<66940, 66954, 39>>,
      <<66956, 66962, 39>>, <<66964, 66965, 39>>, <<68736, 68786, 64>>,
      <<71840, 71871, 32>>, <<93760, 93791, 32>>, <<125184, 125217, 34>>>>

\* <<c, c.lower()>> for the characters that lower-case to more than one
\* character.
LowerFull ==
    <<<<304, <<105, 775>>>>>>

\* str.title() of one character, as LowerRuns and LowerFull.
AsciiTitle == <<<<97, 122, 0 - 32>>>>
TitleRuns ==
    <<<<181, 181, 743>>, <<224, 246, 0 - 32>>, <<248, 254, 0 - 32>>,
      <<255, 255, 121>>, <<257, 257, 0 - 1>>, <<259, 259, 0 - 1>>,
      <<261, 261, 0 - 1>>, <<263, 263, 0 - 1>>, <<265, 265, 0 - 1>>,
      <<267, 267, 0 - 1>>, <<269, 269, 0 - 1>>, <<271, 271, 0 - 1>>,
      <<273, 273, 0 - 1>>, <<275, 275, 0 - 1>>, <<277, 277, 0 - 1>>,
      <<279, 279, 0 - 1>>, <<281, 281, 0 - 1>>, <<283, 283, 0 - 1>>,
      <<285, 285, 0 - 1>>, <<287, 287, 0 - 1>>, <<289, 289, 0 - 1>>,
      <<291, 291, 0 - 1>>, <<293, 293, 0 - 1>>, <<295, 295, 0 - 1>>,
      <<297, 297, 0 - 1>>, <<299, 299, 0 - 1>>, <<301, 301, 0 - 1>>,
      <<303, 303, 0 - 1>>, <<305, 305, 0 - 232>>, <<307, 307, 0 - 1>>,
      <<309, 309, 0 - 1>>, <<311, 311, 0 - 1>>, <<314, 314, 0 - 1>>,
      <<316, 316, 0 - 1>>, <<318, 318, 0 - 1>>, <<320, 320, 0 - 1>>,
      <<322, 322, 0 - 1>>, <<324, 324, 0 - 1>>, <<326, 326, 0 - 1>>,
      <<328, 328, 0 - 1>>, <<331, 331, 0 - 1>>, <<333, 333, 0 - 1>>,
      <<335, 335, 0 - 1>>, <<337, 337, 0 - 1>>, <<339, 339, 0 - 1>>,
      <<341, 341, 0 - 1>>, <<343, 343, 0 - 1>>, <<345, 345, 0 - 1>>,
      <<347, 347, 0 - 1>>, <<349, 349, 0 - 1>>, <<351, 351, 0 - 1>>,
      <<353, 353, 0 - 1>>, <<355, 355, 0 - 1>>, <<357, 357, 0 - 1>>,
      <<359, 359, 0 - 1>>, <<361, 361, 0 - 1>>, <<363, 363, 0 - 1>>,
      <<365, 365, 0 - 1>>, <<367, 367, 0 - 1>>, <<369, 369, 0 - 1>>,
      <<371, 371, 0 - 1>>, <<373, 373, 0 - 1>>, <<375, 375, 0 - 1>>,
      <<378, 378, 0 - 1>>, <<380, 380, 0 - 1>>, <<382, 382, 0 - 1>>,
      <<383, 383, 0 - 300>>, <<384, 384, 195>>, <<387, 387, 0 - 1>>,
      <<389, 389, 0 - 1>>, <<392, 392, 0 - 1>>, <<396, 396, 0 - 1>>,
      <<402, 402, 0 - 1>>, <<405, 405, 97>>, <<409, 409, 0 - 1>>,
      <<410, 410, 163>>, <<414, 414, 130>>, <<417, 417, 0 - 1>>,
      <<419, 419, 0 - 1>>, <<421, 421, 0 - 1>>, <<424, 424, 0 - 1>>,
      <<429, 429, 0 - 1>>, <<432, 432, 0 - 1>>, <<436, 436, 0 - 1>>,
      <<438, 438, 0 - 1>>, <<441, 441, 0 - 1>>, <<445, 445, 0 - 1>>,
      <<447, 447, 56>>, <<452, 452, 1>>, <<454, 454, 0 - 1>>, <<455, 455, 1>>,
      <<457, 457, 0 - 1>>, <<458, 458, 1>>, <<460, 460, 0 - 1>>,
      <<462, 462, 0 - 1>>, <<464, 464, 0 - 1>>, <<466, 466, 0 - 1>>,
      <<468, 468, 0 - 1>>, <<470, 470, 0 - 1>>, <<472, 472, 0 - 1>>,
      <<474, 474, 0 - 1>>, <<476, 476, 0 - 1>>, <<477, 477, 0 - 79>>,
      <<479, 479, 0 - 1>>, <<481, 481, 0 - 1>>, <<483, 483, 0 - 1>>,
      <<485, 485, 0 - 1>>, <<487, 487, 0 - 1>>, <<489, 489, 0 - 1>>,
      <<491, 491, 0 - 1>>, <<493, 493, 0 - 1>>, <<495, 495, 0 - 1>>,
      <<497, 497, 1>>, <<499, 499, 0 - 1>>, <<501, 501, 0 - 1>>,
      <<505, 505, 0 - 1>>, <<507, 507, 0 - 1>>, <<509, 509, 0 - 1>>,
      <<511, 511, 0 - 1>>, <<513, 513, 0 - 1>>, <<515, 515, 0 - 1>>,
      <<517, 517, 0 - 1>>, <<519, 519, 0 - 1>>, <<521, 521, 0 - 1>>,
      <<523, 523, 0 - 1>>, <<525, 525, 0 - 1>>, <<527, 527, 0 - 1>>,
      <<529, 529, 0 - 1>>, <<531, 531, 0 - 1>>, <<533, 533, 0 - 1>>,
      <<535, 535, 0 - 1>>, <<537, 537, 0 - 1>>, <<539, 539, 0 - 1>>,
      <<541, 541, 0 - 1>>, <<543, 543, 0 - 1>>, <<547, 547, 0 - 1>>,
      <<549, 549, 0 - 1>>, <<551, 551, 0 - 1>>, <<553, 553, 0 - 1>>,
      <<555, 555, 0 - 1>>, <<557, 557, 0 - 1>>, <<559, 559, 0 - 1>>,
      <<561, 561, 0 - 1>>, <<563, 563, 0 - 1>>, <<572, 572, 0 - 1>>,
      <<575, 576, 10815>>, <<578, 578, 0 - 1>>, <<583, 583, 0 - 1>>,
      <<585, 585, 0 - 1>>, <<587, 587, 0 - 1>>, <<589, 589, 0 - 1>>,
      <<591, 591, 0 - 1>>, <<592, 592, 10783>>, <<593, 593, 10780>>,
      <<594, 594, 10782>>, <<595, 595, 0 - 210>>, <<596, 596, 0 - 206>>,
      <<598, 599, 0 - 205>>, <<601, 601, 0 - 202>>, <<603, 603, 0 - 203>>,
      <<604, 604, 42319>>, <<608, 608, 0 - 205>>, <<609, 609, 42315>>,
      <<611, 611, 0 - 207>>, <<613, 613, 42280>>, <<614, 614, 42308>>,
      <<616, 616, 0 - 209>>, <<617, 617, 0 - 211>>, <<618, 618, 42308>>,
      <<619, 619, 10743>>, <<620, 620, 42305>>, <<623, 623, 0 - 211>>,
      <<625, 625, 10749>>, <<626, 626, 0 - 213>>, <<629, 629, 0 - 214>>,
      <<637, 637, 10727>>, <<640, 640, 0 - 218>>, <<642, 642, 42307>>,
      <<643, 643, 0 - 218>>, <<647, 647, 42282>>, <<648, 648, 0 - 218>>,
      <<649, 649, 0 - 69>>, <<650, 651, 0 - 217>>, <<652, 652, 0 - 71>>,
      <<658, 658, 0 - 219>>, <<669, 669, 42261>>, <<670, 670, 42258>>,
      <<837, 837, 84>>, <<881, 881, 0 - 1>>, <<883, 883, 0 - 1>>,
      <<887, 887, 0 - 1>>, <<891, 893, 130>>, <<940, 940, 0 - 38>>,
      <<941, 943, 0 - 37>>, <<945, 961, 0 - 32>>, <<962, 962, 0 - 31>>,
      <<963, 971, 0 - 32>>, <<972, 972, 0 - 64>>, <<973, 974, 0 - 63>>,
      <<976, 976, 0 - 62>>, <<977, 977, 0 - 57>>, <<981, 981, 0 - 47>>,
      <<982, 982, 0 - 54>>, <<983, 983, 0 - 8>>, <<985, 985, 0 - 1>>,
      <<987, 987, 0 - 1>>, <<989, 989, 0 - 1>>, <<991, 991, 0 - 1>>,
      <<993, 993, 0 - 1>>, <<995, 995, 0 - 1>>, <<997, 997, 0 - 1>>,
      <<999, 999, 0 - 1>>, <<1001, 1001, 0 - 1>>, <<1003, 1003, 0 - 1>>,
      <<1005, 1005, 0 - 1>>, <<1007, 1007, 0 - 1>>, <<1008, 1008, 0 - 86>>,
      <<1009, 1009, 0 - 80>>, <<1010, 1010, 7>>, <<1011, 1011, 0 - 116>>,
      <<1013, 1013, 0 - 96>>, <<1016, 1016, 0 - 1>>, <<1019, 1019, 0 - 1>>,
      <<1072, 1103, 0 - 32>>, <<1104, 1119, 0 - 80>>, <<1121, 1121, 0 - 1>>,
      <<1123, 1123, 0 - 1>>, <<1125, 1125, 0 - 1>>, <<1127, 1127, 0 - 1>>,
      <<1129, 1129, 0 - 1>>, <<1131, 1131, 0 - 1>>, <<1133, 1133, 0 - 1>>,
      <<1135, 1135, 0 - 1>>, <<1137, 1137, 0 - 1>>, <<1139, 1139, 0 - 1>>,
      <<1141, 1141, 0 - 1>>, <<1143, 1143, 0 - 1>>, <<1145, 1145, 0 - 1>>,
      <<1147, 1147, 0 - 1>>, <<1149, 1149, 0 - 1>>, <<1151, 1151, 0 - 1>>,
      <<1153, 1153, 0 - 1>>, <<1163, 1163, 0 - 1>>, <<1165, 1165, 0 - 1>>,
      <<1167, 1167, 0 - 1>>, <<1169, 1169, 0 - 1>>, <<1171, 1171, 0 - 1>>,
      <<1173, 1173, 0 - 1>>, <<1175, 1175, 0 - 1>>, <<1177, 1177, 0 - 1>>,
      <<1179, 1179, 0 - 1>>, <<1181, 1181, 0 - 1>>, <<1183, 1183, 0 - 1>>,
      <<1185, 1185, 0 - 1>>, <<1187, 1187, 0 - 1>>, <<1189, 1189, 0 - 1>>,
      <<1191, 1191, 0 - 1>>, <<1193, 1193, 0 - 1>>, <<1195, 1195, 0 - 1>>,
      <<1197, 1197, 0 - 1>>, <<1199, 1199, 0 - 1>>, <<1201, 1201, 0 - 1>>,
      <<1203, 1203, 0 - 1>>, <<1205, 1205, 0 - 1>>, <<1207, 1207, 0 - 1>>,
      <<1209, 1209, 0 - 1>>, <<1211, 1211, 0 - 1>>, <<1213, 1213, 0 - 1>>,
      <<1215, 1215, 0 - 1>>, <<1218, 1218, 0 - 1>>, <<1220, 1220, 0 - 1>>,
      <<1222, 1222, 0 - 1>>, <<1224, 1224, 0 - 1>>, <<1226, 1226, 0 - 1>>,
      <<1228, 1228, 0 - 1>>, <<1230, 1230, 0 - 1>>, <<1231, 1231, 0 - 15>>,
      <<1233, 1233, 0 - 1>>, <<1235, 1235, 0 - 1>>, <<1237, 1237, 0 - 1>>,
      <<1239, 1239, 0 - 1>>, <<1241, 1241, 0 - 1>>, <<1243, 1243, 0 - 1>>,
      <<1245, 1245, 0 - 1>>, <<1247, 1247, 0 - 1>>, <<1249, 1249, 0 - 1>>,
      <<1251, 1251, 0 - 1>>, <<1253, 1253, 0 - 1>>, <<1255, 1255, 0 - 1>>,
      <<1257, 1257, 0 - 1>>, <<1259, 1259, 0 - 1>>, <<1261, 1261, 0 - 1>>,
      <<1263, 1263, 0 - 1>>, <<1265, 1265, 0 - 1>>, <<1267, 1267, 0 - 1>>,
      <<1269, 1269, 0 - 1>>, <<1271, 1271, 0 - 1>>, <<1273, 1273, 0 - 1>>,
      <<1275, 1275, 0 - 1>>, <<1277, 1277, 0 - 1>>, <<1279, 1279, 0 - 1>>,
      <<1281, 1281, 0 - 1>>, <<1283, 1283, 0 - 1>>, <<1285, 1285, 0 - 1>>,
      <<1287, 1287, 0 - 1>>, <<1289, 1289, 0 - 1>>, <<1291, 1291, 0 - 1>>,
      <<1293, 1293, 0 - 1>>, <<1295, 1295, 0 - 1>>, <<1297, 1297, 0 - 1>>,
      <<1299, 1299, 0 - 1>>, <<1301, 1301, 0 - 1>>, <<1303, 1303, 0 - 1>>,
      <<1305, 1305, 0 - 1>>, <<1307, 1307, 0 - 1>>, <<1309, 1309, 0 - 1>>,
      <<1311, 1311, 0 - 1>>, <<1313, 1313, 0 - 1>>, <<1315, 1315, 0 - 1>>,
      <<1317, 1317, 0 - 1>>, <<1319, 1319, 0 - 1>>, <<1321, 1321, 0 - 1>>,
      <<1323, 1323, 0 - 1>>, <<1325, 1325, 0 - 1>>, <<1327, 1327, 0 - 1>>,
      <<1377, 1414, 0 - 48>>, <<5112, 5117, 0 - 8>>, <<7296, 7296, 0 - 6254>>,
      <<7297, 7297, 0 - 6253>>, <<7298, 7298, 0 - 6244>>,
      <<7299, 7300, 0 - 6242>>, <<7301, 7301, 0 - 6243>>,
      <<7302, 7302, 0 - 6236>>, <<7303, 7303, 0 - 6181>>,
      <<7304, 7304, 35266>>, <<7545, 7545, 35332>>, <<7549, 7549, 3814>>,
      <<7566, 7566, 35384>>, <<7681, 7681, 0 - 1>>, <<7683, 7683, 0 - 1>>,
      <<7685, 7685, 0 - 1>>, <<7687, 7687, 0 - 1>>, <<7689, 7689, 0 - 1>>,
      <<7691, 7691, 0 - 1>>, <<7693, 7693, 0 - 1>>, <<7695, 7695, 0 - 1>>,
      <<7697, 7697, 0 - 1>>, <<7699, 7699, 0 - 1>>, <<7701, 7701, 0 - 1>>,
      <<7703, 7703, 0 - 1>>, <<7705, 7705, 0 - 1>>, <<7707, 7707, 0 - 1>>,
      <<7709, 7709, 0 - 1>>, <<7711, 7711, 0 - 1>>, <<7713, 7713, 0 - 1>>,
      <<7715, 7715, 0 - 1>>, <<7717, 7717, 0 - 1>>, <<7719, 7719, 0 - 1>>,
      <<7721, 7721, 0 - 1>>, <<7723, 7723, 0 - 1>>, <<7725, 7725, 0 - 1>>,
      <<7727, 7727, 0 - 1>>, <<7729, 7729, 0 - 1>>, <<7731, 7731, 0 - 1>>,
      <<7733, 7733, 0 - 1>>, <<7735, 7735, 0 - 1>>, <<7737, 7737, 0 - 1>>,
      <<7739, 7739, 0 - 1>>, <<7741, 7741, 0 - 1>>, <<7743, 7743, 0 - 1>>,
      <<7745, 7745, 0 - 1>>, <<7747, 7747, 0 - 1>>, <<7749, 7749, 0 - 1>>,
      <<7751, 7751, 0 - 1>>, <<7753, 7753, 0 - 1>>, <<7755, 7755, 0 - 1>>,
      <<7757, 7757, 0 - 1>>, <<7759, 7759, 0 - 1>>, <<7761, 7761, 0 - 1>>,
      <<7763, 7763, 0 - 1>>, <<7765, 7765, 0 - 1>>, <<7767, 7767, 0 - 1>>,
      <<7769, 7769, 0 - 1>>, <<7771, 7771, 0 - 1>>, <<7773, 7773, 0 - 1>>,
      <<7775, 7775, 0 - 1>>, <<7777, 7777, 0 - 1>>, <<7779, 7779, 0 - 1>>,
      <<7781, 7781, 0 - 1>>, <<7783, 7783, 0 - 1>>, <<7785, 7785, 0 - 1>>,
      <<7787, 7787, 0 - 1>>, <<7789, 7789, 0 - 1>>, <<7791, 7791, 0 - 1>>,
      <<7793, 7793, 0 - 1>>, <<7795, 7795, 0 - 1>>, <<7797, 7797, 0 - 1>>,
      <<7799, 7799, 0 - 1>>, <<7801, 7801, 0 - 1>>, <<7803, 7803, 0 - 1>>,
      <<7805, 7805, 0 - 1>>, <<7807, 7807, 0 - 1>>, <<7809, 7809, 0 - 1>>,
      <<7811, 7811, 0 - 1>>, <<7813, 7813, 0 - 1>>, <<7815, 7815, 0 - 1>>,
      <<7817, 7817, 0 - 1>>, <<7819, 7819, 0 - 1>>, <<7821, 7821, 0 - 1>>,
      <<7823, 7823, 0 - 1>>, <<7825, 7825, 0 - 1>>, <<7827, 7827, 0 - 1>>,
      <<7829, 7829, 0 - 1>>, <<7835, 7835, 0 - 59>>, <<7841, 7841, 0 - 1>>,
      <<7843, 7843, 0 - 1>>, <<7845, 7845, 0 - 1>>, <<7847, 7847, 0 - 1>>,
      <<7849, 7849, 0 - 1>>, <<7851, 7851, 0 - 1>>, <<7853, 7853, 0 - 1>>,
      <<7855, 7855, 0 - 1>>, <<7857, 7857, 0 - 1>>, <<7859, 7859, 0 - 1>>,
      <<7861, 7861, 0 - 1>>, <<7863, 7863, 0 - 1>>, <<7865, 7865, 0 - 1>>,
      <<7867, 7867, 0 - 1>>, <<7869, 7869, 0 - 1>>, <<7871, 7871, 0 - 1>>,
      <<7873, 7873, 0 - 1>>, <<7875, 7875, 0 - 1>>, <<7877, 7877, 0 - 1>>,
      <<7879, 7879, 0 - 1>>, <<7881, 7881, 0 - 1>>, <<7883, 7883, 0 - 1>>,
      <<7885, 7885, 0 - 1>>, <<7887, 7887, 0 - 1>>, <<7889, 7889, 0 - 1>>,
      <<7891, 7891, 0 - 1>>, <<7893, 7893, 0 - 1>>, <<7895, 7895, 0 - 1>>,
      <<7897, 7897, 0 - 1>>, <<7899, 7899, 0 - 1>>, <<7901, 7901, 0 - 1>>,
      <<7903, 7903, 0 - 1>>, <<7905, 7905, 0 - 1>>, <<7907, 7907, 0 - 1>>,
      <<7909, 7909, 0 - 1>>, <<7911, 7911, 0 - 1>>, <<7913, 7913, 0 - 1>>,
      <<7915, 7915, 0 - 1>>, <<7917, 7917, 0 - 1>>, <<7919, 7919, 0 - 1>>,
      <<7921, 7921, 0 - 1>>, <<7923, 7923, 0 - 1>>, <<7925, 7925, 0 - 1>>,
      <<7927, 7927, 0 - 1>>, <<7929, 7929, 0 - 1>>, <<7931, 7931, 0 - 1>>,
      <<7933, 7933, 0 - 1>>, <<7935, 7935, 0 - 1>>, <<7936, 7943, 8>>,
      <<7952, 7957, 8>>, <<7968, 7975, 8>>, <<7984, 7991, 8>>,
      <<8000, 8005, 8>>, <<8017, 8017, 8>>, <<8019, 8019, 8>>,
      <<8021, 8021, 8>>, <<8023, 8023, 8>>, <<8032, 8039, 8>>,
      <<8048, 8049, 74>>, <<8050, 8053, 86>>, <<8054, 8055, 100>>,
      <<8056, 8057, 128>>, <<8058, 8059, 112>>, <<8060, 8061, 126>>,
      <<8064, 8071, 8>>, <<8080, 8087, 8>>, <<8096, 8103, 8>>,
      <<8112, 8113, 8>>, <<8115, 8115, 9>>, <<8126, 8126, 0 - 7205>>,
      <<8131, 8131, 9>>, <<8144, 8145, 8>>, <<8160, 8161, 8>>,
      <<8165, 8165, 7>>, <<8179, 8179, 9>>, <<8526, 8526, 0 - 28>>,
      <<8560, 8575, 0 - 16>>, <<8580, 8580, 0 - 1>>, <<9424, 9449, 0 - 26>>,
      <<11312, 11359, 0 - 48>>, <<11361, 11361, 0 - 1>>,
      <<11365, 11365, 0 - 10795>>, <<11366, 11366, 0 - 10792>>,
      <<11368, 11368, 0 - 1>>, <<11370, 11370, 0 - 1>>,
      <<11372, 11372, 0 - 1>>, <<11379, 11379, 0 - 1>>,
      <<11382, 11382, 0 - 1>>, <<11393, 11393, 0 - 1>>,
      <<11395, 11395, 0 - 1>>, <<11397, 11397, 0 - 1>>,
      <<11399, 11399, 0 - 1>>, <<11401, 11401, 0 - 1>>,
      <<11403, 11403, 0 - 1>>, <<11405, 11405, 0 - 1>>,
      <<11407, 11407, 0 - 1>>, <<11409, 11409, 0 - 1>>,
      <<11411, 11411, 0 - 1>>, <<11413, 11413, 0 - 1>>,
      <<11415, 11415, 0 - 1>>, <<11417, 11417, 0 - 1>>,
      <<11419, 11419, 0 - 1>>, <<11421, 11421, 0 - 1>>,
      <<11423, 11423, 0 - 1>>, <<11425, 11425, 0 - 1>>,
      <<11427, 11427, 0 - 1>>, <<11429, 11429, 0 - 1>>,
      <<11431, 11431, 0 - 1>>, <<11433, 11433, 0 - 1>>,
      <<11435, 11435, 0 - 1>>, <<11437, 11437, 0 - 1>>,
      <<11439, 11439, 0 - 1>>, <<11441, 11441, 0 - 1>>,
      <<11443, 11443, 0 - 1>>, <<11445, 11445, 0 - 1>>,
      <<11447, 11447, 0 - 1>>, <<11449, 11449, 0 - 1>>,
      <<11451, 11451, 0 - 1>>, <<11453, 11453, 0 - 1>>,
      <<11455, 11455, 0 - 1>>, <<11457, 11457, 0 - 1>>,
      <<11459, 11459, 0 - 1>>, <<11461, 11461, 0 - 1>>,
      <<11463, 11463, 0 - 1>>, <<11465, 11465, 0 - 1>>,
      <<11467, 11467, 0 - 1>>, <<11469, 11469, 0 - 1>>,
      <<11471, 11471, 0 - 1>>, <<11473, 11473, 0 - 1>>,
      <<11475, 11475, 0 - 1>>, <<11477, 11477, 0 - 1>>,
      <<11479, 11479, 0 - 1>>, <<11481, 11481, 0 - 1>>,
      <<11483, 11483, 0 - 1>>, <<11485, 11485, 0 - 1>>,
      <<11487, 11487, 0 - 1>>, <<11489, 11489, 0 - 1>>,
      <<11491, 11491, 0 - 1>>, <<11500, 11500, 0 - 1>>,
      <<11502, 11502, 0 - 1>>, <<11507, 11507, 0 - 1>>,
      <<11520, 11557, 0 - 7264>>, <<11559, 11559, 0 - 7264>>,
      <<11565, 11565, 0 - 7264>>, <<42561, 42561, 0 - 1>>,
      <<42563, 42563, 0 - 1>>, <<42565, 42565, 0 - 1>>,
      <<42567, 42567, 0 - 1>>, <<42569, 42569, 0 - 1>>,
      <<42571, 42571, 0 - 1>>, <<42573, 42573, 0 - 1>>,
      <<42575, 42575, 0 - 1>>, <<42577, 42577, 0 - 1>>,
      <<42579, 42579, 0 - 1>>, <<42581, 42581, 0 - 1>>,
      <<42583, 42583, 0 - 1>>, <<42585, 42585, 0 - 1>>,
      <<42587, 42587, 0 - 1>>, <<42589, 42589, 0 - 1>>,
      <<42591, 42591, 0 - 1>>, <<42593, 42593, 0 - 1>>,
      <<42595, 42595, 0 - 1>>, <<42597, 42597, 0 - 1>>,
      <<42599, 42599, 0 - 1>>, <<42601, 42601, 0 - 1>>,
      <<42603, 42603, 0 - 1>>, <<42605, 42605, 0 - 1>>,
      <<42625, 42625, 0 - 1>>, <<42627, 42627, 0 - 1>>,
      <<42629, 42629, 0 - 1>>, <<42631, 42631, 0 - 1>>,
      <<42633, 42633, 0 - 1>>, <<42635, 42635, 0 - 1>>,
      <<42637, 42637, 0 - 1>>, <<42639, 42639, 0 - 1>>,
      <<42641, 42641, 0 - 1>>, <<42643, 42643, 0 - 1>>,
      <<42645, 42645, 0 - 1>>, <<42647, 42647, 0 - 1>>,
      <<42649, 42649, 0 - 1>>, <<42651, 42651, 0 - 1>>,
      <<42787, 42787, 0 - 1>>, <<42789, 42789, 0 - 1>>,
      <<42791, 42791, 0 - 1>>, <<42793, 42793, 0 - 1>>,
      <<42795, 42795, 0 - 1>>, <<42797, 42797, 0 - 1>>,
      <<42799, 42799, 0 - 1>>, <<42803, 42803, 0 - 1>>,
      <<42805, 42805, 0 - 1>>, <<42807, 42807, 0 - 1>>,
      <<42809, 42809, 0 - 1>>, <<42811, 42811, 0 - 1>>,
      <<42813, 42813, 0 - 1>>, <<42815, 42815, 0 - 1>>,
      <<42817, 42817, 0 - 1>>, <<42819, 42819, 0 - 1>>,
      <<42821, 42821, 0 - 1>>, <<42823, 42823, 0 - 1>>,
      <<42825, 42825, 0 - 1>>, <<42827, 42827, 0 - 1>>,
      <<42829, 42829, 0 - 1>>, <<42831, 42831, 0 - 1>>,
      <<42833, 42833, 0 - 1>>, <<42835, 42835, 0 - 1>>,
      <<42837, 42837, 0 - 1>>, <<42839, 42839, 0 - 1>>,
      <<42841, 42841, 0 - 1>>, <<42843, 42843, 0 - 1>>,
      <<42845, 42845, 0 - 1>>, <<42847, 42847, 0 - 1>>,
      <<42849, 42849, 0 - 1>>, <<42851, 42851, 0 - 1>>,
      <<42853, 42853, 0 - 1>>, <<42855, 42855, 0 - 1>>,
      <<42857, 42857, 0 - 1>>, <<42859, 42859, 0 - 1>>,
      <<42861, 42861, 0 - 1>>, <<42863, 42863, 0 - 1>>,
      <<42874, 42874, 0 - 1>>, <<42876, 42876, 0 - 1>>,
      <<42879, 42879, 0 - 1>>, <<42881, 42881, 0 - 1>>,
      <<42883, 42883, 0 - 1>>, <<42885, 42885, 0 - 1>>,
      <<42887, 42887, 0 - 1>>, <<42892, 42892, 0 - 1>>,
      <<42897, 42897, 0 - 1>>, <<42899, 42899, 0 - 1>>, <<42900, 42900, 48>>,
      <<42903, 42903, 0 - 1>>, <<42905, 42905, 0 - 1>>,
      <<42907, 42907, 0 - 1>>, <<42909, 42909, 0 - 1>>,
      <<42911, 42911, 0 - 1>>, <<42913, 42913, 0 - 1>>,
      <<42915, 42915, 0 - 1>>, <<42917, 42917, 0 - 1>>,
      <<42919, 42919, 0 - 1>>, <<42921, 42921, 0 - 1>>,
      <<42933, 42933, 0 - 1>>, <<42935, 42935, 0 - 1>>,
      <<42937, 42937, 0 - 1>>, <<42939, 42939, 0 - 1>>,
      <<42941, 42941, 0 - 1>>, <<42943, 42943, 0 - 1>>,
      <<42945, 42945, 0 - 1>>, <<42947, 42947, 0 - 1>>,
      <<42952, 42952, 0 - 1>>, <<42954, 42954, 0 - 1>>,
      <<42961, 42961, 0 - 1>>, <<42967, 42967, 0 - 1>>,
      <<42969, 42969, 0 - 1>>, <<42998, 42998, 0 - 1>>,
      <<43859, 43859, 0 - 928>>, <<43888, 43967, 0 - 38864>>,
      <<65345, 65370, 0 - 32>>, <<66600, 66639, 0 - 40>>,
      <<66776, 66811, 0 - 40>>, <<66967, 66977, 0 - 39>>,
      <<66979, 66993, 0 - 39>>, <<66995, 67001, 0 - 39>>,
      <<67003, 67004, 0 - 39>>, <<68800, 68850, 0 - 64>>,
      <<71872, 71903, 0 - 32>>, <<93792, 93823, 0 - 32>>,
      <<125218, 125251, 0 - 34>>>>

TitleFull ==
    <<<<223, <<83, 115>>>>, <<329, <<700, 78>>>>, <<496, <<74, 780>>>>,
      <<912, <<921, 776, 769>>>>, <<944, <<933, 776, 769>>>>,
      <<1415, <<1333, 1410>>>>, <<7830, <<72, 817>>>>, <<7831, <<84, 776>>>>,
      <<7832, <<87, 778>>>>, <<7833, <<89, 778>>>>, <<7834, <<65, 702>>>>,
      <<8016, <<933, 787>>>>, <<8018, <<933, 787, 768>>>>,
      <<8020, <<933, 787, 769>>>>, <<8022, <<933, 787, 834>>>>,
      <<8114, <<8122, 837>>>>, <<8116, <<902, 837>>>>, <<8118, <<913, 834>>>>,
      <<8119, <<913, 834, 837>>>>, <<8130, <<8138, 837>>>>,
      <<8132, <<905, 837>>>>, <<8134, <<919, 834>>>>,
      <<8135, <<919, 834, 837>>>>, <<8146, <<921, 776, 768>>>>,
      <<8147, <<921, 776, 769>>>>, <<8150, <<921, 834>>>>,
      <<8151, <<921, 776, 834>>>>, <<8162, <<933, 776, 768>>>>,
      <<8163, <<933, 776, 769>>>>, <<8164, <<929, 787>>>>,
      <<8166, <<933, 834>>>>, <<8167, <<933, 776, 834>>>>,
      <<8178, <<8186, 837>>>>, <<8180, <<911, 837>>>>, <<8182, <<937, 834>>>>,
      <<8183, <<937, 834, 837>>>>, <<64256, <<70, 102>>>>,
      <<64257, <<70, 105>>>>, <<64258, <<70, 108>>>>,
      <<64259, <<70, 102, 105>>>>, <<64260, <<70, 102, 108>>>>,
      <<64261, <<83, 116>>>>, <<64262, <<83, 116>>>>,
      <<64275, <<1348, 1398>>>>, <<64276, <<1348, 1381>>>>,
      <<64277, <<1348, 1387>>>>, <<64278, <<1358, 1398>>>>,
      <<64279, <<1348, 1389>>>>>>

IsAlphaChar(c) == IF c < 128 THEN InRanges(c, AsciiLetters) ELSE InRanges(c, AlphaRanges)
IsDigitChar(c) == IF c < 128 THEN 48 <= c /\ c <= 57 ELSE InRanges(c, DigitRanges)
IsCased(c) == IF c < 128 THEN InRanges(c, AsciiLetters) ELSE InRanges(c, CasedRanges)
IsCaseIgnorable(c) ==
    IF c < 128 THEN InRanges(c, AsciiCaseIgnorable) ELSE InRanges(c, CaseIgnorableRanges)
IsSpace(c) == InRanges(c, SpaceRanges)

\* c moved by the run of runs it lies in, c itself when it lies in none.
Shift(c, runs) ==
    IF InRanges(c, runs)
    THEN c + runs[CHOOSE i \in 1..Len(runs) : runs[i][1] <= c /\ c <= runs[i][2]][3]
    ELSE c

\* The image of c under a case mapping, a str.
CaseImage(c, ascii, runs, full) ==
    IF c < 128 THEN <<Shift(c, ascii)>>
    ELSE IF \E i \in 1..Len(full) : full[i][1] = c
         THEN full[CHOOSE i \in 1..Len(full) : full[i][1] = c][2]
         ELSE <<Shift(c, runs)>>

\* c.lower() and c.title() for a str c of one character
LowerChar(c) == CaseImage(c, AsciiLower, LowerRuns, LowerFull)
TitleChar(c) == CaseImage(c, AsciiTitle, TitleRuns, TitleFull)

\* Whether the capital sigma at s[i] ends a word: the nearest character before
\* it that is not case-ignorable is cased, and the nearest such character after
\* it, if there is one, is not cased.
FinalSigma(s, i) ==
    /\ \E j \in 1..(i - 1) :
           /\ ~IsCaseIgnorable(s[j])
           /\ IsCased(s[j])
           /\ \A k \in (j + 1)..(i - 1) : IsCaseIgnorable(s[k])
    /\ ~\E j \in (i + 1)..Len(s) :
           /\ ~IsCaseIgnorable(s[j])
           /\ IsCased(s[j])
           /\ \A k \in (i + 1)..(j - 1) : IsCaseIgnorable(s[k])

\* The lower case of s[i] within s: the capital sigma (931) becomes the final
\* sigma (962) at the end of a word, the small sigma (963) elsewhere.
LowerAt(s, i) ==
    IF s[i] = 931 THEN (IF FinalSigma(s, i) THEN <<962>> ELSE <<963>>)
    ELSE LowerChar(s[i])

\* str.lower()
RECURSIVE LowerFrom(_, _)
LowerFrom(s, i) == IF i > Len(s) THEN <<>> ELSE LowerAt(s, i) \o LowerFrom(s, i + 1)

Lower(s) == LowerFrom(s, 1)

\* str.title(): a character that follows a cased character is lower-cased,
\* every other character (the first one too) is title-cased.
RECURSIVE TitleFrom(_, _, _)
TitleFrom(s, i, previous_is_cased) ==
    IF i > Len(s) THEN <<>>
    ELSE (IF previous_is_cased THEN LowerAt(s, i) ELSE TitleChar(s[i]))
             \o TitleFrom(s, i + 1, IsCased(s[i]))

Title(s) == TitleFrom(s, 1, FALSE)

\* str.strip()
RECURSIVE LStrip(_)
LStrip(s) == IF s # <<>> /\ IsSpace(Head(s)) THEN LStrip(Tail(s)) ELSE s

RECURSIVE RStrip(_)
RStrip(s) ==
    IF s # <<>> /\ IsSpace(s[Len(s)]) THEN RStrip(SubSeq(s, 1, Len(s) - 1)) ELSE s

Strip(s) == RStrip(LStrip(s))

\* The comma the code splits and joins at.
CommaChar == 44
Comma == <<CommaChar>>

\* str.split(sep) for a one-character separator: "".split(",") is [""].
RECURSIVE SplitFrom(_, _, _)
SplitFrom(s, sep, cur) ==
    IF s = <<>> THEN <<cur>>
    ELSE IF Head(s) = sep THEN <<cur>> \o SplitFrom(Tail(s), sep, <<>>)
    ELSE SplitFrom(Tail(s), sep, Append(cur, Head(s)))

Split(s, sep) == SplitFrom(s, sep, <<>>)

\* sep.join(parts)
RECURSIVE Join(_, _)
Join(parts, sep) ==
    IF parts = <<>> THEN <<>>
    ELSE IF Len(parts) = 1 THEN parts[1]
    ELSE parts[1] \o sep \o Join(Tail(parts), sep)

\* [f(x) for x in xs if p(x)] helpers
RECURSIVE SelectNonEmpty(_)
SelectNonEmpty(xs) ==
    IF xs = <<>> THEN <<>>
    ELSE IF Head(xs) # <<>> THEN <<Head(xs)>> \o SelectNonEmpty(Tail(xs))
    ELSE SelectNonEmpty(Tail(xs))

StripEach(xs) == [i \in 1..Len(xs) |-> Strip(xs[i])]

\* x in xs, for a list xs
InList(x, xs) == \E i \in 1..Len(xs) : xs[i] = x

-----------------------------------------------------------------------------
(* Python float arithmetic: a float is [bits, exp], the binary digits of   *)
(* its significand (at most FloatBits of them, the first one 1) and the    *)
(* power of two that scales it; 0.0 has no digits.  Digits are handled in  *)
(* groups, the way a multi-word integer is.                                *)

\* The significand of a float has 53 binary digits.
FloatBits == 53

\* Digits per step of the long division, digits per word of a product.
DivStep == 4
WordBits == 18

\* 2^e for the exponents an int can hold.
PowersOfTwo ==
    <<1, 2, 4, 8, 16, 32, 64, 128, 256, 512, 1024, 2048, 4096, 8192, 16384,
      32768, 65536, 131072, 262144, 524288, 1048576, 2097152, 4194304,
      8388608, 16777216, 33554432, 67108864, 134217728, 268435456, 536870912,
      1073741824>>

Pow2(e) == PowersOfTwo[e + 1]

\* The value of a digit sequence.
RECURSIVE IntOf(_)
IntOf(bits) ==
    IF bits = <<>> THEN 0
    ELSE 2 * IntOf(SubSeq(bits, 1, Len(bits) - 1)) + bits[Len(bits)]

\* The w lowest digits of v, and the digits of v without leading zeros.
FixedBits(v, w) == [i \in 1..w |-> (v \div Pow2(w - i)) % 2]

StripZeros(bits) ==
    IF \A i \in 1..Len(bits) : bits[i] = 0 THEN <<>>
    ELSE LET first == CHOOSE i \in 1..Len(bits) :
                          bits[i] = 1 /\ \A j \in 1..(i - 1) : bits[j] = 0
         IN  SubSeq(bits, first, Len(bits))

BitsOf(k) == StripZeros(FixedBits(k, 31))

\* bits + 1
IncrBits(bits) ==
    IF \A i \in 1..Len(bits) : bits[i] = 1
    THEN <<1>> \o [i \in 1..Len(bits) |-> 0]
    ELSE LET last == CHOOSE i \in 1..Len(bits) :
                         bits[i] = 0 /\ \A j \in (i + 1)..Len(bits) : bits[j] = 1
         IN  [i \in 1..Len(bits) |-> IF i < last THEN bits[i] ELSE IF i = last THEN 1 ELSE 0]

\* Round the number bits * 2^exp (plus something below its last digit when
\* sticky) to the nearest float, a tie to the even significand.
RoundToFloat(bits, exp, sticky) ==
    IF Len(bits) <= FloatBits THEN [bits |-> bits, exp |-> exp]
    ELSE LET kept    == SubSeq(bits, 1, FloatBits)
             dropped == SubSeq(bits, FloatBits + 1, Len(bits))
             more    == sticky \/ \E i \in 2..Len(dropped) : dropped[i] = 1
             up      == dropped[1] = 1 /\ (more \/ kept[FloatBits] = 1)
             rounded == IF up THEN IncrBits(kept) ELSE kept
             d       == Len(bits) - FloatBits
         IN  IF Len(rounded) > FloatBits
             THEN [bits |-> SubSeq(rounded, 1, FloatBits), exp |-> exp + d + 1]
             ELSE [bits |-> rounded, exp |-> exp + d]

\* Long division: the digits of the quotient after acc, r the remainder, until
\* the division ends or more digits than a float holds are known.
RECURSIVE DivBits(_, _, _, _)
DivBits(r, n, acc, scale) ==
    IF r = 0 \/ Len(acc) > FloatBits THEN [bits |-> acc, scale |-> scale, rem |-> r]
    ELSE LET t == r * Pow2(DivStep)
         IN  DivBits(t % n, n, StripZeros(acc \o FixedBits(t \div n, DivStep)),
                     scale + DivStep)

\* m / n for ints m >= 0, n > 0: the float nearest to the quotient.
FloatDiv(m, n) ==
    LET q == DivBits(m % n, n, BitsOf(m \div n), 0)
    IN  RoundToFloat(q.bits, 0 - q.scale, q.rem # 0)

\* The digits of bits * k, for at most three words of digits.
MulBits(bits, k) ==
    LET W    == Pow2(WordBits)
        pad  == [i \in 1..(3 * WordBits - Len(bits)) |-> 0] \o bits
        low  == IntOf(SubSeq(pad, 2 * WordBits + 1, 3 * WordBits)) * k
        mid  == IntOf(SubSeq(pad, WordBits + 1, 2 * WordBits)) * k + low \div W
        high == IntOf(SubSeq(pad, 1, WordBits)) * k + mid \div W
    IN  StripZeros(FixedBits(high \div W, WordBits) \o FixedBits(high % W, WordBits)
                       \o FixedBits(mid % W, WordBits) \o FixedBits(low % W, WordBits))

\* x * k for a float x and an int k > 0
FloatMul(x, k) == RoundToFloat(MulBits(x.bits, k), x.exp, FALSE)

\* int(x) for a float x >= 0
FloatToInt(x) ==
    IF x.exp >= 0 THEN IntOf(x.bits) * Pow2(x.exp)
    ELSE IF Len(x.bits) + x.exp <= 0 THEN 0
    ELSE IntOf(SubSeq(x.bits, 1, Len(x.bits) + x.exp))

\* round(x, 2) for a float x >= 0, in hundredths: the exact value of x rounded
\* to two decimals, a tie to the even digit.
RoundHundredths(x) ==
    LET bits == MulBits(x.bits, 100)
        keep == Len(bits) + x.exp
    IN  IF x.exp >= 0 THEN IntOf(bits) * Pow2(x.exp)
        ELSE IF keep < 0 THEN 0
        ELSE LET whole == IntOf(SubSeq(bits, 1, keep))
                 more  == \E i \in (keep + 2)..Len(bits) : bits[i] = 1
             IN  IF bits[keep + 1] = 1 /\ (more \/ whole % 2 = 1)
                 THEN whole + 1 ELSE whole

-----------------------------------------------------------------------------
(* Bounds of the inference inputs.                                         *)

\* The size of an inference input: every rule counts one for its conclusion and
\* one for each condition, every observed fact counts one.  Inputs of every
\* shape up to this size are explored.
MaxSize == 6

\* Terms the enumerated rules are written with ("ab", "c", "d"), and terms the
\* enumerated facts are written with ("Ab", "c", "d"): "Ab" and "ab" differ for
\* `in`, agree after title().
RuleTerms == {<<97, 98>>, <<99>>, <<100>>}
FactTerms == {<<65, 98>>, <<99>>, <<100>>}

\* The rule list written as the sequence ts of its terms, ends[i] telling
\* that ts[i] is the conclusion that closes a rule: the terms before it, back
\* to the previous conclusion, are the rule's conditions.  A stored rule may
\* be malformed: a conclusion that follows a conclusion has no conditions.
RECURSIVE RulesFrom(_, _, _, _)
RulesFrom(ts, ends, i, conds) ==
    IF i > Len(ts) THEN <<>>
    ELSE IF ends[i]
         THEN <<[if |-> conds, then |-> ts[i]]>> \o RulesFrom(ts, ends, i + 1, <<>>)
         ELSE RulesFrom(ts, ends, i + 1, Append(conds, ts[i]))

-----------------------------------------------------------------------------
(* streamlit_app.py: forward_chain                                         *)

\* all(cond in facts for cond in r["if"]) and r["then"] not in facts
MutFiresNoAbsentCheck(r, fs) == \A i \in 1..Len(r.if) : InList(r.if[i], fs)
Fires(r, fs) ==
    /\ \A i \in 1..Len(r.if) : InList(r.if[i], fs)
    /\ ~InList(r.then, fs)

\* The body of `for r in rules` for the rule at index i, on the loop state
\* st = [facts, conclusions, changed, fired].
FireRule(rs, i, st) ==
    [facts       |-> Append(st.facts, rs[i].then),
     conclusions |-> st.conclusions \cup {rs[i].then},
     changed     |-> TRUE,
     fired       |-> Append(st.fired, i)]

\* `for r in rules:` from index i on.
RECURSIVE ForRules(_, _, _)
ForRules(rs, i, st) ==
    IF i > Len(rs) THEN st
    ELSE ForRules(rs, i + 1, IF Fires(rs[i], st.facts) THEN FireRule(rs, i, st) ELSE st)

\* One iteration of `while changed:`: changed = False, then the for loop.
MutPassSkipsLastRule(rs, st) ==
    ForRules(SubSeq(rs, 1, Len(rs) - 1), 1, [st EXCEPT !.changed = FALSE])
MutPassNoChangedFlag(rs, st) ==
    [ForRules(rs, 1, [st EXCEPT !.changed = FALSE]) EXCEPT !.changed = FALSE]
WhilePass(rs, st) == ForRules(rs, 1, [st EXCEPT !.changed = FALSE])

\* `while changed:` to its end.
RECURSIVE WhileChanged(_, _)
WhileChanged(rs, st) == IF st.changed THEN WhileChanged(rs, WhilePass(rs, st)) ELSE st

\* The loop state after lines 55-57.
FcEntry(fs) == [facts |-> fs, conclusions |-> {}, changed |-> TRUE, fired |-> <<>>]

\* forward_chain(rules, facts): list(conclusions) lists a set in an order the
\* interpreter chooses, so the returned value is kept as the set of its elements.
forward_chain(rs, fs) == WhileChanged(rs, FcEntry(fs)).conclusions

-----------------------------------------------------------------------------
(* streamlit_app.py: get_probabilities                                     *)

Max(a, b) == IF a >= b THEN a ELSE b

\* sum(1 for c in r["if"] if c in facts)
CountMatches(conds, fs) == Cardinality({i \in 1..Len(conds) : InList(conds[i], fs)})

\* int((matches / max(1, len(r["if"]))) * 100): the float quotient times 100,
\* truncated.
ProbOf(matches, n) == FloatToInt(FloatMul(FloatDiv(matches, Max(1, n)), 100))

\* The threshold of line 73.
MinProb == 30

\* `for r in rules:` of get_probabilities from index i on, appending to probs.
RECURSIVE ProbsFrom(_, _, _, _)
ProbsFrom(rs, i, fs, probs) ==
    IF i > Len(rs) THEN probs
    ELSE LET matches == CountMatches(rs[i].if, fs)
             p == ProbOf(matches, Len(rs[i].if))
         IN  ProbsFrom(rs, i + 1, fs,
                 IF matches > 0 /\ p >= MinProb
                 THEN Append(probs, [disease |-> rs[i].then, prob |-> p])
                 ELSE probs)

\* sorted(xs, key=..., reverse=True) is stable: equal keys keep their order.
\* ks[i] is the key of xs[i]; the sort runs on the pairs <<key, element>>.
RECURSIVE InsertDesc(_, _)
InsertDesc(sorted, x) ==
    IF sorted = <<>> THEN <<x>>
    ELSE IF Head(sorted)[1] >= x[1]
         THEN <<Head(sorted)>> \o InsertDesc(Tail(sorted), x)
         ELSE <<x>> \o sorted

RECURSIVE SortPairsDesc(_)
SortPairsDesc(ps) ==
    IF ps = <<>> THEN <<>>
    ELSE InsertDesc(SortPairsDesc(SubSeq(ps, 1, Len(ps) - 1)), ps[Len(ps)])

SortedDesc(xs, ks) ==
    LET sorted == SortPairsDesc([i \in 1..Len(xs) |-> <<ks[i], xs[i]>>])
    IN  [i \in 1..Len(xs) |-> sorted[i][2]]

get_probabilities(rs, fs) ==
    LET probs == ProbsFrom(rs, 1, fs, <<>>)
    IN  SortedDesc(probs, [i \in 1..Len(probs) |-> probs[i].prob])

-----------------------------------------------------------------------------
(* inference_engine.py: infer_with_explanation                             *)

TitleEach(xs) == [i \in 1..Len(xs) |-> Title(xs[i])]

\* [c for c in conditions if c in facts_set]
MatchedCount(conds, fset) == Cardinality({i \in 1..Len(conds) : conds[i] \in fset})

\* round((len(matched) / len(conditions)) * 100, 2), kept in hundredths of a
\* percent: 33.33 is 3333.
PercentOf(m, n) == RoundHundredths(FloatMul(FloatDiv(m, n), 100))

\* partial[conclusion] = percent, on a dict kept as the sequence of its
\* items in insertion order: a key already present keeps its place.
DictHas(d, k) == \E i \in 1..Len(d) : d[i].key = k
DictGet(d, k) == d[CHOOSE i \in 1..Len(d) : d[i].key = k].val
DictSet(d, k, v) ==
    IF DictHas(d, k)
    THEN [i \in 1..Len(d) |-> IF d[i].key = k THEN [key |-> k, val |-> v] ELSE d[i]]
    ELSE Append(d, [key |-> k, val |-> v])

\* The body of `for rule in kb:` (lines 21-33) on the loop state
\* st = [conclusions, explanation, partial].  An explanation line names the
\* rule that fired by its conditions and conclusion.
IweRule(rule, fset, st) ==
    LET conditions == TitleEach(rule.if)
        conclusion == Title(rule.then)
        m == MatchedCount(conditions, fset)
    IN  IF conditions = <<>> \/ conclusion = <<>> THEN st
        ELSE IF m = Len(conditions)
        THEN [st EXCEPT !.conclusions = Append(@, conclusion),
                        !.explanation = Append(@, [if |-> conditions, then |-> conclusion])]
        ELSE IF m > 0
        THEN LET percent == PercentOf(m, Len(conditions))
             IN  IF ~DictHas(st.partial, conclusion) \/ percent > DictGet(st.partial, conclusion)
                 THEN [st EXCEPT !.partial = DictSet(@, conclusion, percent)]
                 ELSE st
        ELSE st

RECURSIVE IweFrom(_, _, _, _)
IweFrom(kb, i, fset, st) ==
    IF i > Len(kb) THEN st ELSE IweFrom(kb, i + 1, fset, IweRule(kb[i], fset, st))

\* Lines 36-41: drop repeated conclusions, keeping the first of each.
RECURSIVE Dedup(_, _)
Dedup(xs, seen) ==
    IF xs = <<>> THEN <<>>
    ELSE IF Head(xs) \in seen THEN Dedup(Tail(xs), seen)
    ELSE <<Head(xs)>> \o Dedup(Tail(xs), seen \cup {Head(xs)})

infer_with_explanation(kb, fs) ==
    LET facts_set == {Title(fs[i]) : i \in 1..Len(fs)}
        st == IweFrom(kb, 1, facts_set,
                      [conclusions |-> <<>>, explanation |-> <<>>, partial |-> <<>>])
    IN  [conclusions |-> Dedup(st.conclusions, {}),
         partial     |-> SortedDesc(st.partial,
                                        [i \in 1..Len(st.partial) |-> st.partial[i].val]),
         explanation |-> st.explanation]


-----------------------------------------------------------------------------
(* app.py: the Flask handlers, on the tables rules and facts               *)

\* Lines 22-25.
ALLOWED_WORDS ==
    {<<114, 97, 105, 110>>,                     \* "rain"
     <<99, 108, 111, 117, 100, 121>>,           \* "cloudy"
     <<115, 117, 110, 110, 121>>,               \* "sunny"
     <<119, 105, 110, 100, 121>>,               \* "windy"
     <<115, 116, 111, 114, 109>>,               \* "storm"
     <<119, 101, 116>>,                         \* "wet"
     <<100, 114, 121>>,                         \* "dry"
     <<99, 111, 108, 100>>,                     \* "cold"
     <<104, 111, 116>>,                         \* "hot"
     <<104, 117, 109, 105, 100>>,               \* "humid"
     <<115, 110, 111, 119>>,                    \* "snow"
     <<99, 108, 101, 97, 114>>,                 \* "clear"
     <<102, 111, 103>>,                         \* "fog"
     <<109, 105, 115, 116>>}                    \* "mist"

\* The shortest accepted form field (line 46).
MinFormLen == 3

\* The message a handler renders: which one, and the word it quotes.
Message(kind, word) == [kind |-> kind, word |-> word]

\* Lines 53-56: the first of words that is not an allowed word.
FirstUnknown(words) ==
    words[CHOOSE i \in 1..Len(words) :
              /\ words[i] \notin ALLOWED_WORDS
              /\ \A j \in 1..(i - 1) : words[j] \in ALLOWED_WORDS]

\* add_rule() (lines 38-61) on the rows of the table rules: the rows
\* afterwards and the message.  A row is [conditions, conclusion], two texts.
add_rule(rows, form_conditions, form_conclusion) ==
    LET conditions == Lower(Strip(form_conditions))
        conclusion == Lower(Strip(form_conclusion))
        typed == conditions \o conclusion
        cond_list == SelectNonEmpty(StripEach(Split(conditions, CommaChar)))
        words == Append(cond_list, conclusion)
    IN  IF conditions = <<>> \/ conclusion = <<>>
        THEN [rows |-> rows, message |-> Message("required", <<>>)]
        ELSE IF \E i \in 1..Len(typed) : IsDigitChar(typed[i])
        THEN [rows |-> rows, message |-> Message("numbers", <<>>)]
        ELSE IF Len(conditions) < MinFormLen \/ Len(conclusion) < MinFormLen
        THEN [rows |-> rows, message |-> Message("meaningful", <<>>)]
        ELSE IF \E i \in 1..Len(words) : words[i] \notin ALLOWED_WORDS
        THEN [rows |-> rows, message |-> Message("unrecognized", FirstUnknown(words))]
        ELSE [rows    |-> Append(rows, [conditions |-> conditions,
                                        conclusion |-> conclusion]),
              message |-> Message("added", <<>>)]

\* add_fact() (lines 72-80) on the rows of the table facts.  On a table with
\* the UNIQUE constraint the INSERT of a fact already there raises
\* IntegrityError, which the handler does not catch.
add_fact(rows, form_fact, unique) ==
    LET fact == Lower(Strip(form_fact))
    IN  IF fact = <<>>
        THEN [rows |-> rows, message |-> Message("required", <<>>)]
        ELSE IF fact \notin ALLOWED_WORDS
        THEN [rows |-> rows, message |-> Message("unrecognized", fact)]
        ELSE IF unique /\ InList(fact, rows)
        THEN [rows |-> rows, message |-> Message("raised", fact)]
        ELSE [rows |-> Append(rows, fact), message |-> Message("added", <<>>)]

\* Lines 92-93: request.form['facts'].strip().lower().split(','), each piece
\* stripped, empty pieces dropped.
FlaskFacts(raw) == SelectNonEmpty(StripEach(Split(Lower(Strip(raw)), CommaChar)))

\* Lines 100-104 from row i on, on st = [conclusions, explanation].
RECURSIVE FlaskRows(_, _, _, _)
FlaskRows(rows, i, facts_input, st) ==
    IF i > Len(rows) THEN st
    ELSE LET cond_list == StripEach(Split(rows[i].conditions, CommaChar))
         IN  FlaskRows(rows, i + 1, facts_input,
                 IF \A k \in 1..Len(cond_list) : InList(cond_list[k], facts_input)
                 THEN [conclusions |-> Append(st.conclusions, rows[i].conclusion),
                       explanation |-> Append(st.explanation,
                                          [if |-> cond_list, then |-> rows[i].conclusion])]
                 ELSE st)

\* infer(): the `results` the handler renders.
infer(rows, raw) ==
    FlaskRows(rows, 1, FlaskFacts(raw), [conclusions |-> <<>>, explanation |-> <<>>])

-----------------------------------------------------------------------------
(* database.py and knowledge_base.py, on the same two tables               *)

\* Lines 19-25.
DEFAULT_RULES ==
    <<[if   |-> <<<<70, 101, 118, 101, 114>>,   \* "Fever"
                 <<67, 111, 117, 103, 104>>,    \* "Cough"
                 <<70, 97, 116, 105, 103, 117, 101>>>>,  \* "Fatigue"
       then |-> <<70, 108, 117>>],              \* "Flu"
      [if   |-> <<<<70, 101, 118, 101, 114>>,   \* "Fever"
                 <<72, 101, 97, 100, 97, 99, 104, 101>>,  \* "Headache"
                 <<78, 97, 117, 115, 101, 97>>>>,  \* "Nausea"
       then |-> <<68, 101, 110, 103, 117, 101>>],  \* "Dengue"
      [if   |-> <<<<67, 111, 117, 103, 104>>,   \* "Cough"
                 <<83, 104, 111, 114, 116, 110, 101, 115, 115, 32, 79, 102, 32, 66, 114, 101, 97, 116, 104>>>>,  \* "Shortness Of Breath"
       then |-> <<65, 115, 116, 104, 109, 97>>],  \* "Asthma"
      [if   |-> <<<<83, 110, 101, 101, 122, 105, 110, 103>>,  \* "Sneezing"
                 <<82, 117, 110, 110, 121, 32, 78, 111, 115, 101>>,  \* "Runny Nose"
                 <<73, 116, 99, 104, 121, 32, 69, 121, 101, 115>>>>,  \* "Itchy Eyes"
       then |-> <<65, 108, 108, 101, 114, 103, 121>>],  \* "Allergy"
      [if   |-> <<<<70, 101, 118, 101, 114>>,   \* "Fever"
                 <<83, 111, 114, 101, 32, 84, 104, 114, 111, 97, 116>>>>,  \* "Sore Throat"
       then |-> <<84, 104, 114, 111, 97, 116, 32, 73, 110, 102, 101, 99, 116, 105, 111, 110>>]>>  \* "Throat Infection"

\* The digits of a \uXXXX escape.
HexDigits == <<48, 49, 50, 51, 52, 53, 54, 55, 56, 57, 97, 98, 99, 100, 101, 102>>

Hex4(n) ==
    <<HexDigits[((n \div 4096) % 16) + 1], HexDigits[((n \div 256) % 16) + 1],
      HexDigits[((n \div 16) % 16) + 1], HexDigits[(n % 16) + 1]>>

\* json.dumps of one character of a str: the quote, the backslash and the
\* characters outside U+0020..U+007E are escaped, a character beyond U+FFFF
\* as a surrogate pair.
EscapeChar(c) ==
    IF c = 34 THEN <<92, 34>>
    ELSE IF c = 92 THEN <<92, 92>>
    ELSE IF c = 10 THEN <<92, 110>>
    ELSE IF c = 13 THEN <<92, 114>>
    ELSE IF c = 9 THEN <<92, 116>>
    ELSE IF c = 12 THEN <<92, 102>>
    ELSE IF c = 8 THEN <<92, 98>>
    ELSE IF 32 <= c /\ c <= 126 THEN <<c>>
    ELSE IF c < 65536 THEN <<92, 117>> \o Hex4(c)
    ELSE <<92, 117>> \o Hex4(55296 + ((c - 65536) \div 1024))
             \o <<92, 117>> \o Hex4(56320 + ((c - 65536) % 1024))

RECURSIVE EscapeFrom(_, _)
EscapeFrom(s, i) == IF i > Len(s) THEN <<>> ELSE EscapeChar(s[i]) \o EscapeFrom(s, i + 1)

\* json.dumps(strs) for a list of str
json_dumps(strs) ==
    LET quoted == [i \in 1..Len(strs) |-> <<34>> \o EscapeFrom(strs[i], 1) \o <<34>>]
    IN  <<91>> \o Join(quoted, <<44, 32>>) \o <<93>>

\* A text sqlite3 can bind: it holds no surrogate.  Binding any other text
\* raises UnicodeEncodeError.
Encodable(s) == \A i \in 1..Len(s) : s[i] < 55296 \/ s[i] > 57343

\* insert_rule(conn, conditions, conclusion) on the rows of the table rules:
\* the rows afterwards, and whether the INSERT raised.
insert_rule(rows, conditions, conclusion) ==
    IF Encodable(Title(conclusion))
    THEN [rows   |-> Append(rows, [conditions |-> json_dumps(TitleEach(conditions)),
                                    conclusion |-> Title(conclusion)]),
          raised |-> FALSE]
    ELSE [rows |-> rows, raised |-> TRUE]

\* insert_fact(conn, fact) on the rows of the table facts: the IntegrityError
\* of a fact already in a UNIQUE table is swallowed.
insert_fact(rows, fact, unique) ==
    IF ~Encodable(Title(fact)) THEN [rows |-> rows, raised |-> TRUE]
    ELSE IF unique /\ InList(Title(fact), rows) THEN [rows |-> rows, raised |-> FALSE]
    ELSE [rows |-> Append(rows, Title(fact)), raised |-> FALSE]

\* database.add_rule_db(db_path, conditions, conclusion) and
\* database.add_fact_db(db_path, fact) on db = [rules, facts, unique], the two
\* tables of the database at db_path.
add_rule_db(db, conditions, conclusion) ==
    [db EXCEPT !.rules = insert_rule(@, conditions, conclusion).rows]
add_fact_db(db, fact) ==
    [db EXCEPT !.facts = insert_fact(@, fact, db.unique).rows]

\* knowledge_base.add_rule_db_wrapper(db_path, conditions, conclusion), which
\* knowledge_base exports as add_rule_db.  The name add_rule_db it calls on
\* line 8 is, after line 15, the wrapper itself: the call recurs until
\* RecursionError is raised and reaches neither table.
add_rule_db_wrapper(db, conditions, conclusion) == db

\* s < t for two str
StrLess(s, t) ==
    \E k \in 1..Len(t) :
        /\ k <= Len(s) + 1
        /\ SubSeq(s, 1, k - 1) = SubSeq(t, 1, k - 1)
        /\ (k = Len(s) + 1 \/ s[k] < t[k])

\* sorted(S) for a set of str
RECURSIVE Sorted(_)
Sorted(S) ==
    IF S = {} THEN <<>>
    ELSE LET least == CHOOSE x \in S : \A y \in S \ {x} : StrLess(x, y)
         IN  <<least>> \o Sorted(S \ {least})

\* `for conds, conclusion in DEFAULT_RULES: insert_rule(...)` from index i on.
RECURSIVE InsertRulesFrom(_, _, _)
InsertRulesFrom(rows, rs, i) ==
    IF i > Len(rs) THEN rows
    ELSE InsertRulesFrom(insert_rule(rows, rs[i].if, rs[i].then).rows, rs, i + 1)

\* `for f in sorted(facts): insert_fact(conn, f)` from index i on.
RECURSIVE InsertFactsFrom(_, _, _)
InsertFactsFrom(rows, fs, i) ==
    IF i > Len(fs) THEN rows
    ELSE InsertFactsFrom(insert_fact(rows, fs[i], TRUE).rows, fs, i + 1)

\* database.init_db(db_path) when there is no file at db_path: the tables of
\* SCHEMA, the default rules and their conditions as facts.
init_db ==
    LET known == UNION {{Title(DEFAULT_RULES[i].if[k]) :
                            k \in 1..Len(DEFAULT_RULES[i].if)} :
                        i \in 1..Len(DEFAULT_RULES)}
    IN  [rules  |-> InsertRulesFrom(<<>>, DEFAULT_RULES, 1),
         facts  |-> InsertFactsFrom(<<>>, Sorted(known), 1),
         unique |-> TRUE]

\* app.py's init_db() (lines 10-19) when there is no file at DB_FILE: two
\* empty tables, no constraint on a fact.
NewDb == [rules |-> <<>>, facts |-> <<>>, unique |-> FALSE]

-----------------------------------------------------------------------------
(* The inference calls and the Flask application as a state machine.  An   *)
(* inference call has its inputs drawn in Init; forward_chain runs one     *)
(* while-iteration per step, the other functions run in one step.  The     *)
(* Flask application starts on a new database and serves one request per   *)
(* step.                                                                   *)

NoFile == [exists |-> FALSE, text |-> <<>>]
NoOp == [kind |-> "none"]
NoResponse == [route |-> "none"]

EditorIdle == loaded = <<>> /\ mem = <<>> /\ op = NoOp
FlaskIdle ==
    /\ db_rules = <<>> /\ db_facts = <<>> /\ db_unique = FALSE
    /\ response = NoResponse
CallIdle ==
    /\ wfacts = <<>> /\ wprev = <<>> /\ conclusions = {} /\ changed = FALSE
    /\ passes = 0 /\ fired = <<>> /\ ret = <<>>
InferIdle ==
    /\ rules = <<>> /\ facts = <<>> /\ pc = "off"
    /\ CallIdle
    /\ FlaskIdle

\* Rows the two tables together are followed to, beyond those they start
\* with.
MaxRows == 2

\* What the requests carry: the fields conditions and conclusion of
\* /add_rule, the field fact of /add_fact, the field facts of /infer.
FormConditions ==
    {<<114, 97, 105, 110>>,                     \* "rain"
     <<119, 101, 116>>,                         \* "wet"
     <<32, 82, 97, 105, 110, 32, 44, 32, 87, 101, 116>>,  \* " Rain , Wet"
     <<44, 44, 44>>,                            \* ",,,"
     <<114, 52, 105, 110>>,                     \* "r4in"
     <<111, 107>>,                              \* "ok"
     <<>>}                                      \* ""

FormConclusions ==
    {<<119, 101, 116>>,                         \* "wet"
     <<67, 111, 108, 100, 32>>,                 \* "Cold "
     <<102, 108, 117>>,                         \* "flu"
     <<>>}                                      \* ""

FormFact ==
    {<<32, 82, 97, 105, 110>>,                  \* " Rain"
     <<102, 108, 117>>,                         \* "flu"
     <<>>}                                      \* ""

FormFacts ==
    {<<32, 82, 97, 105, 110, 32>>,              \* " Rain "
     <<114, 97, 105, 110, 44, 119, 101, 116>>,  \* "rain,wet"
     <<>>}                                      \* ""

\* What a caller of the database helpers passes: the conditions
\* ["rain", "wet"], the conclusion "cold", the fact "rain".
DbConditions == {<<<<114, 97, 105, 110>>, <<119, 101, 116>>>>}
DbConclusions == {<<99, 111, 108, 100>>}
DbFacts == {<<114, 97, 105, 110>>}

\* The two tables as one value, and the tables after a helper returned db.
Db == [rules |-> db_rules, facts |-> db_facts, unique |-> db_unique]
DbBecomes(db) == db_rules' = db.rules /\ db_facts' = db.facts

\* The tables as the database file was created with them.
FirstDb == IF db_unique THEN init_db ELSE NewDb

\* The rows inserted since.
RowsAdded ==
    (Len(db_rules) - Len(FirstDb.rules)) + (Len(db_facts) - Len(FirstDb.facts))

\* An inference call is about to be made.
InitCalls ==
    /\ \E n \in 0..MaxSize :
           /\ \E ts \in [1..n -> RuleTerms], ends \in [1..n -> BOOLEAN] :
                  /\ n > 0 => ends[n]
                  /\ rules = RulesFrom(ts, ends, 1, <<>>)
           /\ \E m \in 0..(MaxSize - n) : facts \in [1..m -> FactTerms]
    /\ pc = "ready"
    /\ CallIdle
    /\ FlaskIdle

\* The Flask application has started: app.py's init_db() created the
\* database, or found the one database.init_db() had created.
InitFlask ==
    /\ rules = <<>> /\ facts = <<>> /\ pc = "serving"
    /\ CallIdle
    /\ \E db \in {NewDb, init_db} :
           /\ db_rules = db.rules
           /\ db_facts = db.facts
           /\ db_unique = db.unique
    /\ response = NoResponse

StoreIdle ==
    /\ w_pc = "idle" /\ w_rules = <<>> /\ w_pending = <<>> /\ w_saves = 0
    /\ pre = <<>>
    /\ r_pc = "idle" /\ r_result = <<>> /\ r_accept = {}

InitInfer ==
    /\ InitCalls \/ InitFlask
    /\ file = NoFile
    /\ EditorIdle
    /\ StoreIdle

\* forward_chain lines 55-57
FcCall ==
    /\ pc = "ready"
    /\ pc' = "fc"
    /\ wfacts' = FcEntry(facts).facts
    /\ wprev' = facts
    /\ conclusions' = FcEntry(facts).conclusions
    /\ changed' = FcEntry(facts).changed
    /\ fired' = FcEntry(facts).fired
    /\ passes' = 0
    /\ UNCHANGED <<rules, facts, ret, flaskVars, file, editorVars, storeVars>>

\* forward_chain lines 58-64: one iteration of the while loop
FcPass ==
    /\ pc = "fc"
    /\ changed
    /\ LET st == WhilePass(rules, [facts |-> wfacts, conclusions |-> conclusions,
                                   changed |-> changed, fired |-> fired])
       IN  /\ wfacts' = st.facts
           /\ conclusions' = st.conclusions
           /\ changed' = st.changed
           /\ fired' = st.fired
    /\ wprev' = wfacts
    /\ passes' = passes + 1
    /\ UNCHANGED <<rules, facts, pc, ret, flaskVars, file, editorVars, storeVars>>

\* forward_chain line 65
FcReturn ==
    /\ pc = "fc"
    /\ ~changed
    /\ pc' = "fc_done"
    /\ ret' = conclusions
    /\ UNCHANGED <<rules, facts, wfacts, wprev, conclusions, changed, passes, fired,
                   flaskVars, file, editorVars, storeVars>>

GetProbabilities ==
    /\ pc = "ready"
    /\ pc' = "probs_done"
    /\ ret' = get_probabilities(rules, facts)
    /\ UNCHANGED <<rules, facts, wfacts, wprev, conclusions, changed, passes, fired,
                   flaskVars, file, editorVars, storeVars>>

InferWithExplanation ==
    /\ pc = "ready"
    /\ pc' = "iwe_done"
    /\ ret' = infer_with_explanation(rules, facts)
    /\ UNCHANGED <<rules, facts, wfacts, wprev, conclusions, changed, passes, fired,
                   flaskVars, file, editorVars, storeVars>>

\* A POST to /add_rule (lines 36-68).
FlaskAddRule(conditions, conclusion) ==
    /\ pc = "serving"
    /\ RowsAdded < MaxRows
    /\ LET h == add_rule(db_rules, conditions, conclusion)
       IN  /\ db_rules' = h.rows
           /\ response' = [route |-> "add_rule", message |-> h.message]
    /\ UNCHANGED <<inferVars, db_facts, db_unique, file, editorVars, storeVars>>

\* A POST to /add_fact (lines 70-88).
FlaskAddFact(fact) ==
    /\ pc = "serving"
    /\ RowsAdded < MaxRows
    /\ LET h == add_fact(db_facts, fact, db_unique)
       IN  /\ db_facts' = h.rows
           /\ response' = [route |-> "add_fact", message |-> h.message]
    /\ UNCHANGED <<inferVars, db_rules, db_unique, file, editorVars, storeVars>>

\* A POST to /infer (lines 90-117): the response keeps the form field and the
\* rows the handler read.
FlaskInfer(raw) ==
    /\ pc = "serving"
    /\ response' = [route |-> "infer", facts |-> raw, rows |-> db_rules,
                    results |-> infer(db_rules, raw)]
    /\ UNCHANGED <<inferVars, db_rules, db_facts, db_unique, file, editorVars,
                   storeVars>>

\* The database helpers called on the database the application serves:
\* database.add_rule_db, database.add_fact_db, knowledge_base.add_rule_db.
DbAddRule(conditions, conclusion) ==
    /\ pc = "serving"
    /\ RowsAdded < MaxRows
    /\ DbBecomes(add_rule_db(Db, conditions, conclusion))
    /\ UNCHANGED <<inferVars, db_unique, response, file, editorVars, storeVars>>

DbAddFact(fact) ==
    /\ pc = "serving"
    /\ RowsAdded < MaxRows
    /\ DbBecomes(add_fact_db(Db, fact))
    /\ UNCHANGED <<inferVars, db_unique, response, file, editorVars, storeVars>>

KbAddRule(conditions, conclusion) ==
    /\ pc = "serving"
    /\ DbBecomes(add_rule_db_wrapper(Db, conditions, conclusion))
    /\ UNCHANGED <<inferVars, db_unique, response, file, editorVars, storeVars>>

NextInfer ==
    \/ FcCall
    \/ FcPass
    \/ FcReturn
    \/ GetProbabilities
    \/ InferWithExplanation
    \/ \E conditions \in FormConditions, conclusion \in FormConclusions :
           FlaskAddRule(conditions, conclusion)
    \/ \E fact \in FormFact : FlaskAddFact(fact)
    \/ \E raw \in FormFacts : FlaskInfer(raw)
    \/ \E conditions \in DbConditions, conclusion \in DbConclusions :
           DbAddRule(conditions, conclusion)
    \/ \E fact \in DbFacts : DbAddFact(fact)
    \/ \E conditions \in DbConditions, conclusion \in DbConclusions :
           KbAddRule(conditions, conclusion)

SpecInfer == InitInfer /\ [][NextInfer]_vars

\* The inference calls and the Flask application are the specification
\* checked by default.
Spec == SpecInfer

-----------------------------------------------------------------------------
(* Properties of the inference calls.                                      *)

\* A rule as the data model describes it: some condition, a non-empty conclusion.
WellFormed(r) == r.if # <<>> /\ r.then # <<>>

\* Every rule is well-formed and concludes a term that is not an observed fact
\* (in any letter case).
DerivesNewTerms ==
    \A i \in 1..Len(rules) :
        /\ WellFormed(rules[i])
        /\ Title(rules[i].then) \notin Range(TitleEach(facts))

\* No rule is stored twice.
NoRepeatedRule == \A i, j \in 1..Len(rules) : rules[i] = rules[j] => i = j

IsPrefix(s, t) == Len(s) <= Len(t) /\ SubSeq(t, 1, Len(s)) = s

RECURSIVE SeqOfSet(_)
SeqOfSet(S) ==
    IF S = {} THEN <<>> ELSE LET x == CHOOSE y \in S : TRUE IN <<x>> \o SeqOfSet(S \ {x})

\* C1: when forward_chain returns, the initial facts together with the returned
\* conclusions are a fixpoint: no rule has every condition in that set and its
\* conclusion outside it, and forward_chain run again from that set returns no
\* conclusions.
C1_Fixpoint ==
    pc = "fc_done" =>
        LET final == Range(facts) \cup ret
        IN  /\ \A i \in 1..Len(rules) :
                   ~(/\ \A k \in 1..Len(rules[i].if) : rules[i].if[k] \in final
                     /\ rules[i].then \notin final)
            /\ forward_chain(rules, facts \o SeqOfSet(ret)) = {}

\* A chained run: the second rule fired in the first pass, the first rule in
\* the second pass on the fact that firing added.
C1_Witness ==
    /\ pc = "fc_done"
    /\ DerivesNewTerms
    /\ fired = <<2, 1>>
    /\ passes = 3
    /\ Cardinality(ret) = 2

\* C4: forward_chain terminates: the working facts only grow, at most |rules|
\* additions occur, and the while loop runs at most |rules| + 1 passes, the last
\* of which leaves changed false.
C4_Termination ==
    pc \in {"fc", "fc_done"} =>
        /\ IsPrefix(facts, wprev)
        /\ IsPrefix(wprev, wfacts)
        /\ Len(wfacts) - Len(facts) <= Len(rules)
        /\ Len(fired) = Len(wfacts) - Len(facts)
        /\ passes <= Len(rules) + 1
        /\ (changed => passes <= Len(rules))
        /\ (pc = "fc_done" => ~changed)

\* The bound is met: every rule added a fact and the loop ran |rules| + 1 passes.
C4_Witness ==
    /\ pc = "fc_done"
    /\ DerivesNewTerms
    /\ Len(rules) >= 2
    /\ Len(wfacts) = Len(facts) + Len(rules)
    /\ passes = Len(rules) + 1

PermutationsOf(rs) ==
    {[i \in 1..Len(rs) |-> rs[f[i]]] : f \in Permutations(1..Len(rs))}

\* C5: the set of conclusions forward_chain returns is the same for every
\* permutation of the rule list.
C5_OrderIndependent ==
    pc = "fc_done" => \A p \in PermutationsOf(rules) : forward_chain(p, facts) = ret

\* Two different rules, the later one feeding the earlier one.
C5_Witness ==
    /\ pc = "fc_done"
    /\ DerivesNewTerms
    /\ Len(rules) >= 2
    /\ rules[1] # rules[2]
    /\ fired = <<2, 1>>
    /\ rules[2].then \in Range(rules[1].if)

\* The terms derivable from the set F by repeated firing of well-formed rules:
\* the least set holding F and closed under the rules.
RECURSIVE Derivable(_, _)
Derivable(rs, F) ==
    LET new == {rs[i].then : i \in {j \in 1..Len(rs) :
                   WellFormed(rs[j]) /\ Range(rs[j].if) \subseteq F}}
    IN  IF new \subseteq F THEN F ELSE Derivable(rs, F \cup new)

TitleRule(r) == [if |-> TitleEach(r.if), then |-> Title(r.then)]
TitleRules(rs) == [i \in 1..Len(rs) |-> TitleRule(rs[i])]

\* The rules the /infer handler reads from the rows of the table.
TableRule(row) ==
    [if |-> StripEach(Split(row.conditions, CommaChar)), then |-> row.conclusion]
TableRules(rows) == [i \in 1..Len(rows) |-> TableRule(rows[i])]

\* C2: infer_with_explanation and the Flask infer handler return the conclusion
\* of every rule whose conditions are all observed facts or derivable from them
\* through the rules.  For infer_with_explanation it is stated for rule lists
\* whose rules are all well-formed and conclude something that was not observed.
C2_AllReachableDerived ==
    /\ (pc = "iwe_done" /\ DerivesNewTerms) =>
           LET kb == TitleRules(rules)
               reach == Derivable(kb, Range(TitleEach(facts)))
           IN  \A i \in 1..Len(kb) :
                   Range(kb[i].if) \subseteq reach
                       => kb[i].then \in Range(ret.conclusions)
    /\ response.route = "infer" =>
           LET kb == TableRules(response.rows)
               reach == Derivable(kb, Range(FlaskFacts(response.facts)))
           IN  \A i \in 1..Len(kb) :
                   Range(kb[i].if) \subseteq reach
                       => kb[i].then \in Range(response.results.conclusions)

\* C3: in forward_chain a rule with no conditions or with the empty conclusion
\* never fires.
C3_MalformedNeverFires ==
    pc \in {"fc", "fc_done"} =>
        \A k \in 1..Len(fired) : WellFormed(rules[fired[k]])

\* C6: in the report of get_probabilities each conclusion appears at most once,
\* with the highest percent among the rules with that conclusion that match at or
\* above the threshold.  Stated for distinct well-formed rules that conclude
\* something that was not observed.
C6_OneEntryPerConclusion ==
    (pc = "probs_done" /\ DerivesNewTerms /\ NoRepeatedRule) =>
        /\ \A i, j \in 1..Len(ret) : ret[i].disease = ret[j].disease => i = j
        /\ \A i \in 1..Len(ret) :
               \A k \in 1..Len(rules) :
                   (/\ rules[k].then = ret[i].disease
                    /\ CountMatches(rules[k].if, facts) > 0)
                       => ret[i].prob >= ProbOf(CountMatches(rules[k].if, facts),
                                                Len(rules[k].if))

\* C7: in a result of infer_with_explanation, partial is populated only when
\* conclusions is empty.  Stated for distinct well-formed rules that conclude
\* something that was not observed.
C7_PartialOnlyWhenNoConclusion ==
    (pc = "iwe_done" /\ DerivesNewTerms /\ NoRepeatedRule) =>
        (ret.conclusions # <<>> => ret.partial = <<>>)

-----------------------------------------------------------------------------
(* streamlit_app.py: term validation                                       *)

RECURSIVE Filter(_, _)
Filter(s, keep) ==
    IF s = <<>> THEN <<>>
    ELSE IF Head(s) \in keep THEN <<Head(s)>> \o Filter(Tail(s), keep)
    ELSE Filter(Tail(s), keep)

\* re.sub(r"[^a-zA-Z,\s]", "", text).strip().lower(), "" for no text
clean_text(text) ==
    IF text = <<>> THEN <<>>
    ELSE LET kept == {c \in Range(text) :
                         InRanges(c, AsciiLetters) \/ c = CommaChar \/ IsSpace(c)}
         IN  Lower(Strip(Filter(text, kept)))

\* The class [aeiou].
Vowels == {97, 101, 105, 111, 117}

\* re.search(r"[aeiou]", s)
has_vowel(s) == \E i \in 1..Len(s) : s[i] \in Vowels

\* term.replace(" ", ""): the space is 32.
NoSpaces(s) == Filter(s, Range(s) \ {32})

\* str.isalpha(): some character, and every character a letter
IsAlpha(s) == s # <<>> /\ \A i \in 1..Len(s) : IsAlphaChar(s[i])

\* The shortest accepted term (line 40) and the run that line 46 rejects.
MinTermLen == 3
MaxRun == 3

\* re.search(r"(.)\1{2,}", s): some character other than the newline (10)
\* three times in a row
HasRun(s) ==
    \E i \in 1..(Len(s) - (MaxRun - 1)) :
        s[i] # 10 /\ \A k \in 1..(MaxRun - 1) : s[i + k] = s[i]

is_valid_term(term) ==
    LET t == Strip(term)
    IN  /\ Len(t) >= MinTermLen
        /\ IsAlpha(NoSpaces(t))
        /\ ~HasRun(NoSpaces(t))
        /\ has_vowel(t)

-----------------------------------------------------------------------------
(* streamlit_app.py: rules.json                                            *)

\* The rules of lines 16-22.
DefaultRules ==
    <<[if   |-> <<<<115, 110, 101, 101, 122, 105, 110, 103>>,  \* "sneezing"
                 <<99, 111, 117, 103, 104>>,    \* "cough"
                 <<99, 111, 108, 100>>>>,       \* "cold"
       then |-> <<102, 108, 117>>],             \* "flu"
      [if   |-> <<<<102, 101, 118, 101, 114>>,  \* "fever"
                 <<98, 111, 100, 121, 32, 112, 97, 105, 110>>>>,  \* "body pain"
       then |-> <<118, 105, 114, 97, 108, 32, 105, 110, 102, 101, 99, 116, 105, 111, 110>>],  \* "viral infection"
      [if   |-> <<<<104, 101, 97, 100, 97, 99, 104, 101>>,  \* "headache"
                 <<110, 97, 117, 115, 101, 97>>>>,  \* "nausea"
       then |-> <<109, 105, 103, 114, 97, 105, 110, 101>>],  \* "migraine"
      [if   |-> <<<<114, 97, 115, 104>>,        \* "rash"
                 <<105, 116, 99, 104, 105, 110, 103>>>>,  \* "itching"
       then |-> <<97, 108, 108, 101, 114, 103, 121>>],  \* "allergy"
      [if   |-> <<<<116, 105, 114, 101, 100, 110, 101, 115, 115>>,  \* "tiredness"
                 <<119, 101, 97, 107, 110, 101, 115, 115>>>>,  \* "weakness"
       then |-> <<102, 97, 116, 105, 103, 117, 101>>]>>  \* "fatigue"

\* json.dump(rules, f): the text as the sequence of its parts, the two
\* brackets of the list and one part per rule.  A part is [tok, val]: tok is
\* "[", "]" or "{}", val holds the rule of a "{}" part.
OpenBracket == [tok |-> "[", val |-> <<>>]
CloseBracket == [tok |-> "]", val |-> <<>>]
RulePart(r) == [tok |-> "{}", val |-> <<r>>]

json_dump(rs) ==
    <<OpenBracket>> \o [i \in 1..Len(rs) |-> RulePart(rs[i])] \o <<CloseBracket>>

\* Whether json.load(f) parses the text: a whole list, both brackets there.
JsonParses(text) ==
    /\ Len(text) >= 2
    /\ text[1].tok = "["
    /\ text[Len(text)].tok = "]"
    /\ \A i \in 2..(Len(text) - 1) : text[i].tok = "{}"

json_load(text) == [i \in 1..(Len(text) - 2) |-> text[i + 1].val[1]]

\* load_rules(): the parsed file, [] when it does not parse, the built-in
\* rules when there is no file.
load_rules(f) ==
    IF f.exists
    THEN IF JsonParses(f.text) THEN json_load(f.text) ELSE <<>>
    ELSE DefaultRules

\* save_rules(rules) when nothing else runs between its open() and close().
save_rules(rs) == [exists |-> TRUE, text |-> json_dump(rs)]

-----------------------------------------------------------------------------
(* streamlit_app.py: the rule editor                                       *)

\* rules.pop(idx), idx counted from 0
MutPopLast(rs, idx) == SubSeq(rs, 1, Len(rs) - 1)
ListPop(rs, idx) == SubSeq(rs, 1, idx) \o SubSeq(rs, idx + 2, Len(rs))

\* Lines 139-145 on the loaded list: the list in memory afterwards, whether
\* save_rules ran, and the message shown.
DeleteHandler(rs, idx) ==
    IF 0 <= idx /\ idx < Len(rs)
    THEN [rules |-> ListPop(rs, idx), saved |-> TRUE, outcome |-> "deleted"]
    ELSE [rules |-> rs, saved |-> FALSE, outcome |-> "ignored"]

\* [t for t in ts if not is_valid_term(t)]
RECURSIVE InvalidTerms(_)
InvalidTerms(ts) ==
    IF ts = <<>> THEN <<>>
    ELSE IF ~is_valid_term(Head(ts)) THEN <<Head(ts)>> \o InvalidTerms(Tail(ts))
    ELSE InvalidTerms(Tail(ts))

\* Line 162: the condition terms of the cleaned input.
ConditionsOf(conds_clean) == SelectNonEmpty(StripEach(Split(conds_clean, CommaChar)))

\* Lines 154-175 on the loaded list.
AddHandler(rs, conds, concl) ==
    LET conds_clean == clean_text(conds)
        concl_clean == clean_text(concl)
        conditions == ConditionsOf(conds_clean)
    IN  IF conds_clean = <<>> \/ concl_clean = <<>>
        THEN [rules |-> rs, saved |-> FALSE, outcome |-> "empty"]
        ELSE IF InvalidTerms(Append(conditions, concl_clean)) # <<>>
        THEN [rules |-> rs, saved |-> FALSE, outcome |-> "invalid"]
        ELSE [rules |-> Append(rs, [if |-> conditions, then |-> concl_clean]),
              saved |-> TRUE, outcome |-> "added"]

\* The longest rule list the editor runs are explored to.
MaxStored == 6

\* What the user types into the add-rule form.
RawConds ==
    {<<>>,                                      \* ""
     <<44>>,                                    \* ","
     <<67, 111, 108, 100, 44, 32, 82, 97, 115, 104>>,  \* "Cold, Rash"
     <<99, 48, 108, 100>>}                      \* "c0ld"

RawConcl ==
    {<<>>,                                      \* ""
     <<70, 108, 117, 33>>,                      \* "Flu!"
     <<111, 107>>}                              \* "ok"

InitEditor ==
    /\ file = NoFile
    /\ EditorIdle
    /\ InferIdle
    /\ StoreIdle

\* The end of a script run's handler: a handler that called save_rules leaves
\* the session at the open() of line 25.
EndsHandler(h) ==
    /\ mem' = h.rules
    /\ w_pc' = IF h.saved THEN "save" ELSE "idle"
    /\ w_rules' = IF h.saved THEN h.rules ELSE <<>>
    /\ UNCHANGED <<file, w_pending, w_saves, pre, r_pc, r_result, r_accept,
                   inferVars, flaskVars>>

\* A script run in which a delete was requested (lines 122, 139-145), up to
\* the call of save_rules.
DeleteRule(idx) ==
    /\ w_pc = "idle"
    /\ loaded' = load_rules(file)
    /\ LET h == DeleteHandler(load_rules(file), idx)
       IN  /\ op' = [kind |-> "delete", idx |-> idx, outcome |-> h.outcome]
           /\ EndsHandler(h)

\* A script run in which the add-rule form was submitted (lines 122, 154-175),
\* up to the call of save_rules.
AddRule(conds, concl) ==
    /\ w_pc = "idle"
    /\ Len(load_rules(file)) < MaxStored
    /\ loaded' = load_rules(file)
    /\ LET h == AddHandler(load_rules(file), conds, concl)
       IN  /\ op' = [kind |-> "add", conds |-> conds, concl |-> concl,
                     outcome |-> h.outcome]
           /\ EndsHandler(h)

\* save_rules line 25: open(RULES_FILE, "w") creates the file or truncates it.
SaveOpens ==
    /\ w_pc = "save"
    /\ file' = [exists |-> TRUE, text |-> <<>>]
    /\ w_pending' = json_dump(w_rules)
    /\ w_pc' = "write"
    /\ UNCHANGED <<w_rules, w_saves, pre, r_pc, r_result, r_accept, inferVars,
                   flaskVars, editorVars>>

\* save_rules line 26: json.dump writes into the file object's buffer, which
\* reaches the file n parts at a time (when the buffer fills, and at close()).
SaveWrites ==
    /\ w_pc = "write"
    /\ \E n \in 1..Len(w_pending) :
           /\ file' = [file EXCEPT !.text = @ \o SubSeq(w_pending, 1, n)]
           /\ w_pending' = SubSeq(w_pending, n + 1, Len(w_pending))
    /\ UNCHANGED <<w_pc, w_rules, w_saves, pre, r_pc, r_result, r_accept,
                   inferVars, flaskVars, editorVars>>

\* The end of the with block: everything is in the file, the save is over.
SaveCloses ==
    /\ w_pc = "write"
    /\ w_pending = <<>>
    /\ w_pc' = "idle"
    /\ pre' = w_rules
    /\ w_rules' = <<>>
    /\ UNCHANGED <<file, w_pending, w_saves, r_pc, r_result, r_accept,
                   inferVars, flaskVars, editorVars>>

NextEditor ==
    \/ \E idx \in -1..MaxStored : DeleteRule(idx)
    \/ \E conds \in RawConds, concl \in RawConcl : AddRule(conds, concl)
    \/ SaveOpens
    \/ SaveWrites
    \/ SaveCloses

SpecEditor == InitEditor /\ [][NextEditor]_vars

-----------------------------------------------------------------------------
(* Properties of the rule editor.                                          *)

\* Every term of the rule passes is_valid_term and there is a condition.
ValidRule(r) ==
    /\ r.if # <<>>
    /\ \A i \in 1..Len(r.if) : is_valid_term(r.if[i])
    /\ is_valid_term(r.then)

\* C8: after any sequence of add and delete submissions every stored rule has
\* a condition and only valid terms, and a submission that yields no condition
\* term or an invalid term leaves the stored list as it was.
C8_StoredRulesValid ==
    /\ \A i \in 1..Len(load_rules(file)) : ValidRule(load_rules(file)[i])
    /\ op.kind = "add" =>
           LET conditions == ConditionsOf(clean_text(op.conds))
           IN  (\/ conditions = <<>>
                \/ InvalidTerms(Append(conditions, clean_text(op.concl))) # <<>>)
                   => (op.outcome # "added" /\ load_rules(file) = loaded)

\* C9: deleting by an index in range removes exactly the rule at that index and
\* keeps the others in order, in memory and, once save_rules has returned, in
\* the file; an index out of range leaves the list in memory and the list in
\* the file as they were.
C9_DeleteByIndex ==
    op.kind = "delete" =>
        IF 0 <= op.idx /\ op.idx < Len(loaded)
        THEN /\ Len(mem) = Len(loaded) - 1
             /\ \A j \in 1..Len(mem) :
                    mem[j] = IF j <= op.idx THEN loaded[j] ELSE loaded[j + 1]
             /\ w_pc # "idle" \/ (file.exists /\ load_rules(file) = mem)
        ELSE /\ mem = loaded
             /\ load_rules(file) = loaded

\* A rule that is neither the first nor the last was deleted and saved.
C9_Witness ==
    /\ op.kind = "delete"
    /\ op.outcome = "deleted"
    /\ w_pc = "idle"
    /\ 0 < op.idx
    /\ op.idx < Len(loaded) - 1
    /\ loaded[op.idx + 1] \notin Range(mem)
    /\ load_rules(file) = mem

-----------------------------------------------------------------------------
(* rules.json shared by two sessions: one session handles a submission and *)
(* saves, open() to close(), while another session loads.                  *)

\* The saves the writing session is followed through.
MaxSaves == 2

InitStore ==
    /\ file = NoFile
    /\ w_pc = "idle" /\ w_rules = <<>> /\ w_pending = <<>> /\ w_saves = 0
    /\ pre = load_rules(NoFile)
    /\ r_pc = "idle" /\ r_result = <<>> /\ r_accept = {}
    /\ InferIdle
    /\ EditorIdle

\* The writing session's script run up to the call of save_rules: it loads the
\* rules and handles an accepted add or delete (lines 122-143, 154-173).
WriterHandles(h) ==
    /\ w_pc = "idle"
    /\ h.saved
    /\ w_saves < MaxSaves
    /\ w_saves' = w_saves + 1
    /\ w_rules' = h.rules
    /\ w_pc' = "save"
    /\ UNCHANGED <<file, w_pending, pre, r_pc, r_result, r_accept, inferVars,
                   flaskVars, editorVars>>

WriterDeletes ==
    /\ w_pc = "idle"
    /\ \E idx \in 0..(Len(load_rules(file)) - 1) :
           WriterHandles(DeleteHandler(load_rules(file), idx))

WriterAdds ==
    /\ w_pc = "idle"
    /\ \E conds \in RawConds, concl \in RawConcl :
           WriterHandles(AddHandler(load_rules(file), conds, concl))

\* The reading session's load_rules() (line 122).  r_accept keeps the complete
\* lists of that moment: the list the file held before a running save, and the
\* list being saved.
ReaderLoads ==
    /\ r_pc = "idle"
    /\ r_result' = load_rules(file)
    /\ r_accept' = IF w_pc = "write" THEN {pre, w_rules} ELSE {pre}
    /\ r_pc' = "loaded"
    /\ UNCHANGED <<file, w_pc, w_rules, w_pending, w_saves, pre, inferVars,
                   flaskVars, editorVars>>

\* The reading session's script run ends.
ReaderEnds ==
    /\ r_pc = "loaded"
    /\ r_pc' = "idle"
    /\ r_result' = <<>>
    /\ r_accept' = {}
    /\ UNCHANGED <<file, w_pc, w_rules, w_pending, w_saves, pre, inferVars,
                   flaskVars, editorVars>>

NextStore ==
    \/ WriterDeletes
    \/ WriterAdds
    \/ SaveOpens
    \/ SaveWrites
    \/ SaveCloses
    \/ ReaderLoads
    \/ ReaderEnds

SpecStore == InitStore /\ [][NextStore]_vars

\* C10: a load_rules() that runs while another session runs save_rules obtains
\* the complete list from before the save or the complete list being saved,
\* never an empty or partly written list.
C10_AtomicSave ==
    r_pc = "loaded" => r_result \in r_accept

====
